---- MODULE Spec2Model ----
(***************************************************************************)
(* A model of the logical plan builder of plan/logical_plan_builder.go.    *)
(*                                                                         *)
(* Go slices are modelled as sequences; a Go index i (0-based) is the      *)
(* sequence index i+1.  A plan pointer is the index of the node in the     *)
(* builder's arena `nodes`; the nil plan is 0.  A run-time panic (index    *)
(* out of range, method call on a nil interface) is an outcome of its own: *)
(* the call that panics never returns.                                     *)
(***************************************************************************)
EXTENDS Integers, Sequences, FiniteSets, TLC

VARIABLES
    cin,    \* coalesceCommonColumns: the arguments of the call
    cst,    \* coalesceCommonColumns: the locals (lColumns, rColumns, filter, commonLen, i)
    cout,   \* coalesceCommonColumns: what the call left behind (error, schema, ...)
    stmt,   \* the statement handed to the plan builder
    res,    \* the builder after the build, and the plan it returned
    mgr,    \* the owner managers: where each campaign loop is, its locals, its session
    keys,   \* etcd: the managers with a key under the election prefix, oldest first
    ext     \* extractOnCondition: the arguments, the loop index and the four lists

cvars == <<cin, cst, cout>>
bvars == <<stmt, res>>
ovars == <<mgr, keys>>
xvars == <<ext>>
vars == <<cin, cst, cout, stmt, res, mgr, keys, ext>>

(***************************************************************************)
(* Bounds of the model.                                                    *)
(***************************************************************************)
MaxCols == 3
MaxUsing == 2

(***************************************************************************)
(* Generic helpers on sequences.                                           *)
(***************************************************************************)
Range(s) == {s[k] : k \in DOMAIN s}

Injective(s) == \A x, y \in DOMAIN s : s[x] = s[y] => x = y

SeqsUpTo(S, n) == UNION {[1..k -> S] : k \in 0..n}

\* s[lo:hi] of Go (0-based, hi exclusive)
Slice(s, lo, hi) == [k \in 1..(hi - lo) |-> s[lo + k]]

\* Let(v, LAMBDA x : e) is e with x bound to v, as LET x == v IN e
Let(v, Body(_)) == Body(v)

(***************************************************************************)
(* model.CIStr: a column name keeps its original spelling O and compares   *)
(* by its lower-cased spelling L.                                          *)
(***************************************************************************)
NameO == {"a", "A", "b", "c", "d"}

Lower(o) == IF o = "A" THEN "a" ELSE o

NameL == {Lower(o) : o \in NameO}

(***************************************************************************)
(* expression.Column, as far as the builder reads and writes it.           *)
(***************************************************************************)
Column(from, pos, name, tbl, id) ==
    [FromID |-> from, Position |-> pos, ColName |-> name, TblName |-> tbl, ID |-> id]

ColL(col) == Lower(col.ColName)

SchemaNamesL(cols) == {ColL(cols[k]) : k \in DOMAIN cols}

(***************************************************************************)
(* coalesceCommonColumns, lines 322-386.                                   *)
(***************************************************************************)

\* the first j in commonLen..len(rColumns)-1 whose name matches lCol, or -1
FirstMatch(lCol, rColumns, commonLen) ==
    LET hits == {j \in commonLen..(Len(rColumns) - 1) : ColL(rColumns[j + 1]) = ColL(lCol)}
    IN  IF hits = {} THEN -1 ELSE CHOOSE j \in hits : \A h \in hits : j <= h

\* col := s[k]; copy(s[c+1:k+1], s[c:k]); s[c] = col      (needs c <= k < len(s))
Rotate(s, c, k) ==
    [x \in 1..Len(s) |->
        IF x = c + 1 THEN s[k + 1]
        ELSE IF x > c + 1 /\ x <= k + 1 THEN s[x - 1]
        ELSE s[x]]

\* filter[name]: a missing key reads as false
FilterGet(filter, name) == IF name \in DOMAIN filter THEN filter[name] ELSE FALSE

\* One iteration of the outer loop (lines 332-357) at index st.i.
CoalesceIter(st) ==
    LET i    == st.i
        lCol == st.l[i + 1]
        j    == FirstMatch(lCol, st.r, st.commonLen)
        name == ColL(lCol)
        next == [st EXCEPT !.i = i + 1]
    IN  IF j = -1 THEN next
        ELSE IF Cardinality(DOMAIN st.filter) > 0 /\ ~FilterGet(st.filter, name) THEN next
        ELSE
          LET f2 == IF Cardinality(DOMAIN st.filter) > 0
                    THEN [st.filter EXCEPT ![name] = FALSE]
                    ELSE st.filter
          IN  \* col := rColumns[i]
              IF i >= Len(st.r)
              THEN [st EXCEPT !.filter = f2, !.panic = TRUE, !.badIndex = <<"rColumns", i, Len(st.r)>>]
              \* col = lColumns[j]
              ELSE IF j >= Len(st.l)
              THEN [st EXCEPT !.filter = f2, !.panic = TRUE,
                              !.r = Rotate(st.r, st.commonLen, i),
                              !.badIndex = <<"lColumns", j, Len(st.l)>>]
              ELSE [next EXCEPT !.filter = f2,
                                !.r = Rotate(st.r, st.commonLen, i),
                                !.l = Rotate(st.l, st.commonLen, j),
                                !.commonLen = st.commonLen + 1]

\* lines 323-331: the locals before the loop
CoalesceStart(leftCols, rightCols, rightJoin, filter) ==
    [l         |-> IF rightJoin THEN rightCols ELSE leftCols,
     r         |-> IF rightJoin THEN leftCols ELSE rightCols,
     filter    |-> filter,
     commonLen |-> 0,
     i         |-> 0,
     panic     |-> FALSE,
     badIndex  |-> <<>>]

\* lines 359-365: the filter entries still marked "not seen"
Unseen(st) ==
    IF Cardinality(DOMAIN st.filter) > 0 /\ Cardinality(DOMAIN st.filter) # st.commonLen
    THEN {n \in DOMAIN st.filter : st.filter[n]}
    ELSE {}

\* expression.NewFunction(ctx, ast.EQ, ..., lc, rc)
EqCond(lc, rc) == [op |-> "eq", args |-> <<lc, rc>>]

\* lines 367-385: the schema, the redundant schema and the conditions
CoalesceFinish(st, rightJoin, redundant0, eq0) ==
    LET lsc == IF rightJoin THEN st.r ELSE st.l
        rsc == IF rightJoin THEN st.l ELSE st.r
    IN  [schema    |-> st.l \o Slice(st.r, st.commonLen, Len(st.r)),
         redundant |-> redundant0 \o Slice(st.r, 0, st.commonLen),
         eqConds   |-> [k \in 1..st.commonLen |-> EqCond(lsc[k], rsc[k])] \o eq0,
         commonLen |-> st.commonLen]

\* the loop of lines 332-357 run to its end (or to the panic)
RECURSIVE CoalesceLoop(_)
CoalesceLoop(st) ==
    IF st.panic \/ st.i >= Len(st.l) THEN st ELSE CoalesceLoop(CoalesceIter(st))

(***************************************************************************)
(* The calls of coalesceCommonColumns that are checked: every pair of      *)
(* column lists with names unique within each side, a NATURAL join (nil    *)
(* filter) or a USING list, with and without conditions and redundant      *)
(* columns already on the join.                                            *)
(***************************************************************************)
LeftID == <<"DataSource", 1>>
RightID == <<"DataSource", 2>>

NameLists == {s \in SeqsUpTo(NameO, MaxCols) : Injective([k \in DOMAIN s |-> Lower(s[k])])}

ColumnList(from, tbl, names) == [k \in DOMAIN names |-> Column(from, k - 1, names[k], tbl, k)]

UsingSets == {u \in SUBSET NameL : Cardinality(u) >= 1 /\ Cardinality(u) <= MaxUsing}

\* buildUsingClause, lines 303-309: the filter map of the USING names
UsingFilter(using) == [n \in using |-> TRUE]

NilFilter == [n \in {} |-> TRUE]

PriorCond == EqCond(Column(LeftID, 9, "p", "t1", 10), Column(RightID, 9, "q", "t2", 10))
PriorRedundant == Column(<<"DataSource", 0>>, 9, "r", "t0", 10)

CoalesceInput(ln, rn, rj, u, prior) ==
    [left |-> ColumnList(LeftID, "t1", ln), right |-> ColumnList(RightID, "t2", rn),
     rightJoin |-> rj, natural |-> (u = {}), using |-> u,
     filter |-> IF u = {} THEN NilFilter ELSE UsingFilter(u),
     eq0 |-> IF prior THEN <<PriorCond>> ELSE <<>>,
     redundant0 |-> IF prior THEN <<PriorRedundant>> ELSE <<>>]

NoResult == [status |-> "running"]

\* no owner manager was created
NoManagers == [m \in {} |-> 0]

\* no call of extractOnCondition
NoExtract == [status |-> "idle"]

CoalesceInit ==
    /\ \E ln \in NameLists, rn \in NameLists, rj \in BOOLEAN, u \in UsingSets \cup {{}},
          prior \in BOOLEAN : cin = CoalesceInput(ln, rn, rj, u, prior)
    /\ cst = CoalesceStart(cin.left, cin.right, cin.rightJoin, cin.filter)
    /\ cout = NoResult
    /\ stmt = NoResult
    /\ res = NoResult
    /\ mgr = NoManagers
    /\ keys = <<>>
    /\ ext = NoExtract

\* one iteration of the loop of lines 332-357
CoalesceStep ==
    /\ cout.status = "running"
    /\ cst.i < Len(cst.l)
    /\ cst' = CoalesceIter(cst)
    /\ cout' = IF cst'.panic THEN [status |-> "panic", badIndex |-> cst'.badIndex] ELSE cout
    /\ UNCHANGED <<cin, bvars, ovars, xvars>>

\* lines 359-365: some USING name was not seen; the map is ranged over in any order
CoalesceUnknownColumn ==
    /\ cout.status = "running"
    /\ cst.i >= Len(cst.l)
    /\ \E col \in Unseen(cst) : cout' = [status |-> "err", err |-> "ErrUnknownColumn", col |-> col]
    /\ UNCHANGED <<cin, cst, bvars, ovars, xvars>>

\* lines 367-385
CoalesceReturn ==
    /\ cout.status = "running"
    /\ cst.i >= Len(cst.l)
    /\ Unseen(cst) = {}
    /\ cout' = [status |-> "ok"] @@ CoalesceFinish(cst, cin.rightJoin, cin.redundant0, cin.eq0)
    /\ UNCHANGED <<cin, cst, bvars, ovars, xvars>>

CoalesceNext == CoalesceStep \/ CoalesceUnknownColumn \/ CoalesceReturn

SpecCoalesce == CoalesceInit /\ [][CoalesceNext]_vars

(***************************************************************************)
(* Claims about coalesceCommonColumns (checked under SpecCoalesce).        *)
(***************************************************************************)

\* the side whose columns are retained (lColumns), and the other side (rColumns)
KeptSide == IF cin.rightJoin THEN cin.right ELSE cin.left
OtherSide == IF cin.rightJoin THEN cin.left ELSE cin.right

\* the names the join coalesces: common to both sides and, with USING, listed
CommonNames ==
    {n \in SchemaNamesL(cin.left) \cap SchemaNamesL(cin.right) : cin.natural \/ n \in cin.using}

ColNamed(cols, n) == CHOOSE c \in Range(cols) : ColL(c) = n

\* C3: on success every common column name occurs exactly once in the output
\* schema, that occurrence is the retained side's column (left; right on a
\* RIGHT JOIN), and the other side's copy is not in the output schema but in
\* redundantSchema.
C3_CoalescedOnce ==
    cout.status = "ok" =>
        \A n \in CommonNames :
            /\ Cardinality({k \in DOMAIN cout.schema : ColL(cout.schema[k]) = n}) = 1
            /\ ColNamed(KeptSide, n) \in Range(cout.schema)
            /\ ColNamed(OtherSide, n) \notin Range(cout.schema)
            /\ ColNamed(OtherSide, n) \in Range(cout.redundant)

\* C4: on success the output schema is the common columns in the order of the
\* first table (the retained side), then the columns unique to the first table
\* in their order, then the columns unique to the second table in their order.
C4_DisplayOrder ==
    cout.status = "ok" =>
        LET IsCommon(c) == ColL(c) \in CommonNames
            NotCommon(c) == ColL(c) \notin CommonNames
        IN  cout.schema = SelectSeq(KeptSide, IsCommon) \o SelectSeq(KeptSide, NotCommon)
                            \o SelectSeq(OtherSide, NotCommon)

\* C5: on success with k common columns the EqualConditions are k synthesized
\* equalities followed by the conditions present before, in their order, and
\* every synthesized equality relates a column of the left plan and a column
\* of the right plan that carry the same case-insensitive name.
C5_EqualConditions ==
    cout.status = "ok" =>
        LET k == Cardinality(CommonNames)
        IN  /\ Len(cout.eqConds) = k + Len(cin.eq0)
            /\ Slice(cout.eqConds, k, Len(cout.eqConds)) = cin.eq0
            /\ \A x \in 1..k :
                   /\ cout.eqConds[x].args[1] \in Range(cin.left)
                   /\ cout.eqConds[x].args[2] \in Range(cin.right)
                   /\ ColL(cout.eqConds[x].args[1]) = ColL(cout.eqConds[x].args[2])

\* C6: a USING join fails with the unknown-column error if and only if some
\* USING name is not a column of both sides, and succeeds otherwise.
C6_UnknownColumnIff ==
    (~cin.natural /\ cout.status # "running") =>
        LET missing == {n \in cin.using :
                           n \notin SchemaNamesL(cin.left) \cap SchemaNamesL(cin.right)}
        IN  /\ (cout.status = "err") <=> (missing # {})
            /\ (missing = {}) => cout.status = "ok"

\* C28: coalesceCommonColumns never indexes or slices a column list outside
\* its bounds: whatever the two column lists and the position of the matching
\* name, the index that picks and rotates a column is smaller than the length
\* of the list, and the call ends with an error or a schema, never aborted.
C28_InBounds ==
    /\ ~cst.panic
    /\ cst.badIndex = <<>>
    /\ cout.status \in {"running", "err", "ok"}

(***************************************************************************)
(* The plan builder.                                                       *)
(*                                                                         *)
(* The builder b is a record: the id allocator (id), the arena of the plan *)
(* nodes created so far (nodes), the latched error (err, "" for nil), the  *)
(* hint stack, needColHandle and inUpdateStmt.  For the claims about the   *)
(* order of the build steps it also keeps three histories: calls (every    *)
(* build step entered, with b.err at its entry), sets (every assignment to *)
(* b.err) and rets (every return of a build function, with b.err and the   *)
(* plan returned), and the logs projs, sels, wilds, aggLog and hintLog of  *)
(* what buildSelect, unfoldWildStar, buildAggregation and buildJoin saw,   *)
(* with selStack (for every buildSelect running, whether it pushed a hint  *)
(* frame), selLog (the hint stack around every buildSelect) and            *)
(* resolveLog and gbyLog (every column the HAVING and ORDER BY resolver    *)
(* and the GROUP BY resolver left).  A                                     *)
(* build function maps a builder and its arguments to a record [b, p]:     *)
(* the builder afterwards and the plan returned.                           *)
(***************************************************************************)
NilPlan == 0

ExtraHandleID == -1

NewBuilder(txnRW) ==
    [id |-> 0, nodes |-> <<>>, err |-> "", panic |-> "",
     tableHintInfo |-> <<>>, needColHandle |-> 0, inUpdateStmt |-> FALSE,
     outerSchemas |-> <<>>, txnRW |-> txnRW,
     colMapper |-> [u \in {} |-> 0],
     calls |-> <<>>, sets |-> <<>>, rets |-> <<>>, projs |-> <<>>, sels |-> <<>>,
     wilds |-> <<>>, aggLog |-> <<>>, hintLog |-> <<>>, selStack |-> <<>>, selLog |-> <<>>,
     resolveLog |-> <<>>, gbyLog |-> <<>>]

Res(b, p) == [b |-> b, p |-> p]

\* a build step is entered
Enter(b, fn) == [b EXCEPT !.calls = Append(@, [fn |-> fn, err |-> b.err])]

\* b.err = err; fresh: the error is a new one, not b.err handed back by a callee
SetErr(b, fn, err, fresh) ==
    [b EXCEPT !.err = err,
              !.sets = Append(@, [fn |-> fn, prev |-> b.err, new |-> err, fresh |-> fresh])]

\* return p
Ret(b, fn, p) == Res([b EXCEPT !.rets = Append(@, [fn |-> fn, err |-> b.err, p |-> p])], p)

\* a variant that hands back the node built last together with the error
FailKeepPlan(b, fn, err, fresh) == Ret(SetErr(b, fn, err, fresh), fn, Len(b.nodes))

\* b.err = err; return nil
Fail(b, fn, err, fresh) == Ret(SetErr(b, fn, err, fresh), fn, NilPlan)

\* a run-time panic: nothing after it runs and nothing is returned
Panic(b, what) == Res([b EXCEPT !.panic = IF b.panic = "" THEN what ELSE b.panic], NilPlan)

\* a variant whose counter stays where it is
AllocIDStuck(b) == b

\* idAllocator.allocID, lines 46-49: a.id++ (the id returned is "_<a.id>")
AllocID(b) == [b EXCEPT !.id = b.id + 1]

NewNode(tp, n) ==
    [tp |-> tp, id |-> <<tp, n>>, children |-> <<>>, parents |-> <<>>, schema |-> <<>>,
     attr |-> [tp |-> tp]]

\* X{...}.init(b.allocator, b.ctx): a new node whose id is tp + allocID()
InitNode(b, tp) ==
    LET b1 == AllocID(b)
    IN  Res([b1 EXCEPT !.nodes = Append(@, NewNode(tp, b1.id))], Len(b1.nodes) + 1)

SchemaOf(b, p) == b.nodes[p].schema

SetSchema(b, p, schema) == [b EXCEPT !.nodes[p].schema = schema]

SetAttr(b, p, attr) == [b EXCEPT !.nodes[p].attr = attr @@ @]

SetParents(b, p, pars) == [b EXCEPT !.nodes[p].parents = pars]

SetChildren(b, p, ch) == [b EXCEPT !.nodes[p].children = ch]

addChild(b, parent, child) ==
    IF child = NilPlan \/ parent = NilPlan THEN b
    ELSE [b EXCEPT !.nodes[child].parents = Append(@, parent),
                   !.nodes[parent].children = Append(@, child)]

(***************************************************************************)
(* The AST.  An expression node has a kind k, for an aggregate the         *)
(* identity uid of the AST node (the maps are keyed by the pointer), for a *)
(* column its table and name, and its arguments.                           *)
(***************************************************************************)
Expr(k, uid, tbl, name, n, args) ==
    [k |-> k, uid |-> uid, tbl |-> tbl, name |-> name, n |-> n, args |-> args]

ColE(tbl, name) == Expr("col", "", tbl, name, 0, <<>>)
\* a column of HAVING or ORDER BY, with the identity of its AST node
ColU(uid, tbl, name) == Expr("col", uid, tbl, name, 0, <<>>)
AggE(uid, f, args) == Expr("agg", uid, "", f, 0, args)
OpE(args) == Expr("op", "", "", "", 0, args)
AndE(l, r) == Expr("and", "", "", "", 0, <<l, r>>)
ValE == Expr("val", "", "", "", 0, <<>>)
\* a position in GROUP BY
PosE(n) == Expr("pos", "", "", "", n, <<>>)
\* an expression the rewriter rejects
BadE == Expr("bad", "", "", "", 0, <<>>)
\* no expression (a nil Where or Having)
NoExpr == Expr("nil", "", "", "", 0, <<>>)
ByItem(expr) == [expr |-> expr, desc |-> FALSE]
\* a sub-query: kind is "exists", "in" or "scalar"
SubE(kind, sel) == Expr("sub", "", "", kind, 0, <<sel>>)

Field(expr, asName) ==
    [wild |-> FALSE, wtbl |-> "", expr |-> expr, asName |-> asName, aux |-> FALSE]
WildField(tbl) ==
    [wild |-> TRUE, wtbl |-> tbl, expr |-> ValE, asName |-> "", aux |-> FALSE]
AuxField(expr, asName) ==
    [wild |-> FALSE, wtbl |-> "", expr |-> expr, asName |-> asName, aux |-> TRUE]

RECURSIVE Contains(_, _)
\* whether the expression holds a node of kind k (sub-queries are not entered)
Contains(e, k) ==
    \/ e.k = k
    \/ e.k # "sub" /\ \E x \in DOMAIN e.args : Contains(e.args[x], k)

RECURSIVE FirstSub(_)
\* the first sub-query of the expression, in the order the rewriter visits it
FirstSub(e) ==
    IF e.k = "sub" THEN e
    ELSE Let({x \in DOMAIN e.args : Contains(e.args[x], "sub")}, LAMBDA with :
           FirstSub(e.args[CHOOSE x \in with : \A y \in with : x <= y]))

(***************************************************************************)
(* Schema.FindColumn: the column matching (table, name), nil when none     *)
(* matches, an error when more than one does.                              *)
(***************************************************************************)
FindColumn(schema, tbl, name) ==
    Let({x \in DOMAIN schema :
                    /\ Lower(schema[x].ColName) = Lower(name)
                    /\ (tbl = "" \/ schema[x].TblName = tbl)}, LAMBDA hits :
      IF hits = {} THEN [found |-> FALSE, err |-> ""]
        ELSE IF Cardinality(hits) > 1 THEN [found |-> FALSE, err |-> "ErrAmbiguous"]
        ELSE [found |-> TRUE, err |-> "", col |-> schema[CHOOSE x \in hits : TRUE]])

\* what the rewriter reads besides the plan: the aggregate map handed to it, the
\* builder's column map and the schemas of the enclosing queries
RwCtx(b, mapper) == [agg |-> mapper, col |-> b.colMapper, outer |-> b.outerSchemas]

ColumnExpr(col) == [k |-> "Column", col |-> <<col>>, of |-> <<>>]

InOuter(outer, e) == \E x \in DOMAIN outer : FindColumn(outer[x], e.tbl, e.name).found

RECURSIVE RewriteErr(_, _, _)
\* the error the rewriter ends with on an expression, "" for none and "panic"
\* for an index out of the schema's range
RewriteErr(e, schema, ctx) ==
    CASE e.k = "bad" -> "ErrRewrite"
      [] e.k = "sub" -> ""
      [] e.k = "agg" ->
           IF e.uid \notin DOMAIN ctx.agg THEN "ErrInvalidGroupFuncUse"
           ELSE IF ctx.agg[e.uid] >= Len(schema) THEN "panic" ELSE ""
      [] e.k = "col" ->
           IF e.uid \in DOMAIN ctx.col
           THEN IF ctx.col[e.uid] >= Len(schema) THEN "panic" ELSE ""
           ELSE Let(FindColumn(schema, e.tbl, e.name), LAMBDA f :
                  IF f.err # "" THEN f.err
                    ELSE IF f.found \/ InOuter(ctx.outer, e) THEN ""
                    ELSE "ErrUnknownColumn")
      [] OTHER ->
           LET errs == {x \in DOMAIN e.args : RewriteErr(e.args[x], schema, ctx) # ""}
           IN  IF errs = {} THEN ""
               ELSE RewriteErr(e.args[CHOOSE x \in errs : \A y \in errs : x <= y], schema, ctx)

RECURSIVE Shape(_, _, _)
\* the expression the rewriter makes of an AST expression over a schema
Shape(e, schema, ctx) ==
    CASE e.k = "agg" -> ColumnExpr(schema[ctx.agg[e.uid] + 1])
      [] e.k = "col" ->
           IF e.uid \in DOMAIN ctx.col THEN ColumnExpr(schema[ctx.col[e.uid] + 1])
           ELSE Let(FindColumn(schema, e.tbl, e.name), LAMBDA f :
                  IF f.found THEN ColumnExpr(f.col)
                    ELSE [k |-> "Correlated", col |-> <<>>, of |-> <<e.tbl, Lower(e.name)>>])
      [] e.k = "sub" -> [k |-> "Scalar", col |-> <<>>, of |-> <<"sub", e.name>>]
      [] OTHER ->
           [k |-> "Scalar", col |-> <<>>,
            of |-> <<e.k, e.name, [x \in DOMAIN e.args |-> Shape(e.args[x], schema, ctx)]>>]

\* the nil expression
NilExpr == [k |-> "nil", col |-> <<>>, of |-> <<>>]

RwRes(b, p, exprs, err, fresh) ==
    [b |-> b, p |-> p, exprs |-> exprs, err |-> err, fresh |-> fresh]

RECURSIVE Call(_, _)
RECURSIVE RewriteList(_, _, _, _, _, _)
\* for _, e := range es { expr, np, err := b.rewrite(e, p, mapper, asScalar); ...; p = np }
\* up to the first error
RewriteList(b, p, es, mapper, asScalar, done) ==
    IF es = <<>> \/ b.panic # "" THEN RwRes(b, p, done, "", FALSE)
    ELSE LET r == Call("Rewrite", <<b, Head(es), p, mapper, asScalar>>)
         IN  IF r.b.panic # "" \/ r.err # "" THEN RwRes(r.b, p, done, r.err, r.fresh)
             ELSE RewriteList(r.b, r.p, Tail(es), mapper, asScalar, Append(done, r.exprs[1]))

\* an empty map
NoMapper == [u \in {} |-> 0]

\* buildTableDual, lines 1155-1159
BuildTableDual(b) ==
    Let(InitNode(Enter(b, "buildTableDual"), "TableDual"), LAMBDA d :
      Ret(SetSchema(d.b, d.p, <<>>), "buildTableDual", d.p))

RECURSIVE SplitWhere(_)
\* splitWhere: the conjuncts of the top-level ANDs
SplitWhere(e) == IF e.k = "and" THEN SplitWhere(e.args[1]) \o SplitWhere(e.args[2]) ELSE <<e>>

\* buildSelection, lines 388-412
BuildSelection(b0, p0, where, AggMapper) ==
    IF b0.panic # "" THEN Res(b0, NilPlan)
    ELSE
      Let(InitNode(Enter(b0, "buildSelection"), "Selection"), LAMBDA s :
      Let(RewriteList(s.b, p0, SplitWhere(where), AggMapper, FALSE, <<>>), LAMBDA rw :
      Let(SelectSeq(rw.exprs, LAMBDA x : x.k # "nil"), LAMBDA exprs :
        IF rw.b.panic # "" THEN Res(rw.b, NilPlan)
          ELSE IF rw.err # ""
          THEN Ret(SetErr(rw.b, "buildSelection", rw.err, rw.fresh), "buildSelection", NilPlan)
          ELSE IF Len(exprs) = 0 THEN Ret(rw.b, "buildSelection", rw.p)
          ELSE Ret(addChild(SetSchema(SetAttr(rw.b, s.p, [Conditions |-> exprs]),
                                      s.p, SchemaOf(rw.b, rw.p)),
                            s.p, rw.p),
                   "buildSelection", s.p))))

\* a variant that gives every column the position 1
BuildProjectionFieldSamePosition(id, position, field, expr) ==
    Let(IF field.asName # "" THEN <<field.asName, "">>
                 ELSE IF expr.k = "Column" /\ field.expr.k = "col"
                 THEN <<field.expr.name, field.expr.tbl>>
                 ELSE <<"expr", "">>, LAMBDA named :
      Column(id, 1, named[1], named[2], 0))

\* buildProjectionField, lines 459-478, with buildProjectionFieldNameFromColumns
\* and buildProjectionFieldNameFromExpressions
BuildProjectionField(id, position, field, expr) ==
    Let(IF field.asName # "" THEN <<field.asName, "">>
                 ELSE IF expr.k = "Column" /\ field.expr.k = "col"
                 THEN <<field.expr.name, field.expr.tbl>>
                 ELSE <<"expr", "">>, LAMBDA named :
      Column(id, position, named[1], named[2], 0))

\* buildProjection, lines 481-505: the plan and the number of non-auxiliary fields
BuildProjection(b0, p0, fields, mapper) ==
    IF b0.panic # "" THEN Res(b0, NilPlan) @@ [oldLen |-> 0]
    ELSE
      Let(InitNode(Enter(b0, "buildProjection"), "Projection"), LAMBDA proj :
      Let(RewriteList(proj.b, p0, [x \in DOMAIN fields |-> fields[x].expr], mapper, TRUE, <<>>),
          LAMBDA rw :
      Let([x \in DOMAIN fields |->
                        BuildProjectionField(rw.b.nodes[proj.p].id, x, fields[x], rw.exprs[x])],
          LAMBDA schema :
      Let(Cardinality({x \in DOMAIN fields : ~fields[x].aux}), LAMBDA oldLen :
        IF rw.b.panic # "" THEN Res(rw.b, NilPlan) @@ [oldLen |-> 0]
          ELSE IF rw.err # ""
          THEN Ret(SetErr(rw.b, "buildProjection", rw.err, rw.fresh), "buildProjection", NilPlan)
                 @@ [oldLen |-> Cardinality({x \in 1..Len(rw.exprs) : ~fields[x].aux})]
          ELSE Ret(addChild(SetSchema(SetAttr(rw.b, proj.p, [Exprs |-> rw.exprs]), proj.p, schema),
                            proj.p, rw.p),
                   "buildProjection", proj.p) @@ [oldLen |-> oldLen]))))

FirstRow(col) == [f |-> "firstrow", args |-> <<[k |-> "Column", col |-> <<col>>, of |-> <<>>]>>,
                  distinct |-> FALSE]

\* buildDistinct, lines 507-521
BuildDistinct(b0, child, length) ==
    IF b0.panic # "" THEN Res(b0, NilPlan)
    ELSE
      Let(Enter(b0, "buildDistinct"), LAMBDA b1 :
      Let(SchemaOf(b1, child), LAMBDA sch :
        IF length > Len(sch) THEN Panic(InitNode(b1, "Aggregation").b, "buildDistinct: Columns[:length]")
          ELSE
            Let(InitNode(b1, "Aggregation"), LAMBDA agg :
            Let(SetAttr(agg.b, agg.p,
                               [GroupByItems |-> SubSeq(sch, 1, length),
                                AggFuncs |-> [x \in DOMAIN sch |-> FirstRow(sch[x])]]), LAMBDA b2 :
              Ret(SetSchema(addChild(b2, agg.p, child), agg.p, sch), "buildDistinct", agg.p)))))

\* buildSort, lines 605-621
BuildSort(b0, p0, byItems, aggMapper) ==
    IF b0.panic # "" THEN Res(b0, NilPlan)
    ELSE
      Let(InitNode(Enter(b0, "buildSort"), "Sort"), LAMBDA sort :
      Let(RewriteList(sort.b, p0, [x \in DOMAIN byItems |-> byItems[x].expr],
                              aggMapper, TRUE, <<>>), LAMBDA rw :
        IF rw.b.panic # "" THEN Res(rw.b, NilPlan)
          ELSE IF rw.err # ""
          THEN Ret(SetErr(rw.b, "buildSort", rw.err, rw.fresh), "buildSort", NilPlan)
          ELSE Ret(SetSchema(addChild(SetAttr(rw.b, sort.p, [ByItems |-> rw.exprs]), sort.p, rw.p),
                             sort.p, SchemaOf(rw.b, rw.p)),
                   "buildSort", sort.p)))

\* getUintForLimitOffset, lines 626-639: whether the value converts
GetUintForLimitOffset(val) ==
    CASE val.tp = "uint64" -> TRUE
      [] val.tp = "int64"  -> val.v >= 0
      [] val.tp = "string" -> val.v >= 0
      [] OTHER             -> FALSE

NoValue == [tp |-> "nil", v |-> 0]

\* buildLimit, lines 641-672
BuildLimit(b0, src, limit) ==
    IF b0.panic # "" THEN Res(b0, NilPlan)
    ELSE
      Let(Enter(b0, "buildLimit"), LAMBDA b1 :
        IF limit.Offset # NoValue /\ ~GetUintForLimitOffset(limit.Offset)
          THEN Ret(SetErr(b1, "buildLimit", "ErrWrongArguments", TRUE), "buildLimit", NilPlan)
          ELSE IF limit.Count # NoValue /\ ~GetUintForLimitOffset(limit.Count)
          THEN Ret(SetErr(b1, "buildLimit", "ErrWrongArguments", TRUE), "buildLimit", NilPlan)
          ELSE
            Let(InitNode(b1, "Limit"), LAMBDA li :
            Let(addChild(li.b, li.p, src), LAMBDA b2 :
              IF src = NilPlan THEN Panic(b2, "buildLimit: src.Schema() of a nil plan")
                ELSE Ret(SetSchema(b2, li.p, SchemaOf(b2, src)), "buildLimit", li.p))))

\* buildSelectLock: a SelectLock node over src
BuildSelectLock(b0, src, lock) ==
    IF b0.panic # "" THEN Res(b0, NilPlan)
    ELSE
      Let(InitNode(Enter(b0, "buildSelectLock"), "SelectLock"), LAMBDA sl :
      Let(addChild(sl.b, sl.p, src), LAMBDA b2 :
        Ret(SetSchema(b2, sl.p, SchemaOf(b2, src)), "buildSelectLock", sl.p)))

\* buildMaxOneRow, lines 1321-1326
BuildMaxOneRow(b0, p) ==
    IF b0.panic # "" THEN Res(b0, NilPlan)
    ELSE
      Let(InitNode(Enter(b0, "buildMaxOneRow"), "MaxOneRow"), LAMBDA m :
      Let(addChild(m.b, m.p, p), LAMBDA b2 :
        Ret(SetSchema(b2, m.p, SchemaOf(b2, p)), "buildMaxOneRow", m.p)))

RECURSIVE ExistsStrip(_, _)
\* the loop of buildExists, lines 1292-1310
ExistsStrip(b, p) ==
    LET n == b.nodes[p]
    IN  IF n.tp \in {"Projection", "Sort"}
        THEN ExistsStrip(SetParents(b, n.children[1], <<>>), n.children[1])
        ELSE IF n.tp = "Aggregation"
        THEN IF Len(n.attr.GroupByItems) = 0
             THEN BuildTableDual(b)
             ELSE ExistsStrip(SetParents(b, n.children[1], <<>>), n.children[1])
        ELSE Res(b, p)

\* buildExists, lines 1291-1319
BuildExists(b0, p0) ==
    IF b0.panic # "" THEN Res(b0, NilPlan)
    ELSE
      Let(ExistsStrip(Enter(b0, "buildExists"), p0), LAMBDA st :
      Let(InitNode(st.b, "Exists"), LAMBDA ex :
      Let(addChild(ex.b, ex.p, st.p), LAMBDA b2 :
        Ret(SetSchema(b2, ex.p, <<Column(b2.nodes[ex.p].id, 0, "exists_col", "", 0)>>),
              "buildExists", ex.p))))

\* buildSemiJoin, lines 1328-1353
BuildSemiJoin(b0, outerPlan, innerPlan, asScalar, not) ==
    Let(InitNode(b0, "Join"), LAMBDA j :
    Let(SetParents(SetParents(SetChildren(j.b, j.p, <<outerPlan, innerPlan>>),
                                    outerPlan, <<j.p>>),
                         innerPlan, <<j.p>>), LAMBDA b1 :
    Let(b1.nodes[j.p].id, LAMBDA id :
      IF asScalar
        THEN Res(SetAttr(SetSchema(b1, j.p, Append(SchemaOf(b1, outerPlan),
                                                   Column(id, 0, "aux_0", "", 0))),
                         j.p, [JoinType |-> "LeftOuterSemiJoin", anti |-> not]), j.p)
        ELSE Res(SetAttr(SetSchema(b1, j.p, SchemaOf(b1, outerPlan)),
                         j.p, [JoinType |-> "SemiJoin", anti |-> not]), j.p))))

\* buildSemiApply, lines 1277-1289: the LogicalApply is a copy of the LogicalJoin
\* with a type and an id of its own
BuildSemiApply(b0, outerPlan, innerPlan, asScalar, not) ==
    IF b0.panic # "" THEN Res(b0, NilPlan)
    ELSE
      Let(BuildSemiJoin(Enter(b0, "buildSemiApply"), outerPlan, innerPlan, asScalar, not),
          LAMBDA join :
      Let(AllocID(join.b), LAMBDA b1 :
      Let([join.b.nodes[join.p] EXCEPT !.tp = "Apply", !.id = <<"Apply", b1.id>>], LAMBDA node :
      Let([b1 EXCEPT !.nodes = Append(@, node)], LAMBDA b2 :
      Let(Len(b2.nodes), LAMBDA ap :
      Let(SetParents(SetParents(b2, node.children[1], <<ap>>), node.children[2], <<ap>>),
          LAMBDA b3 :
        Ret(b3, "buildSemiApply", ap)))))))

\* buildApplyWithJoinType, lines 1259-1274
BuildApplyWithJoinType(b0, outerPlan, innerPlan, tp) ==
    IF b0.panic # "" THEN Res(b0, NilPlan)
    ELSE
      Let(InitNode(Enter(b0, "buildApplyWithJoinType"), "Apply"), LAMBDA ap :
      Let(addChild(addChild(SetAttr(ap.b, ap.p, [JoinType |-> tp]), ap.p, outerPlan),
                         ap.p, innerPlan), LAMBDA b1 :
        Ret(SetSchema(b1, ap.p, SchemaOf(b1, outerPlan) \o SchemaOf(b1, innerPlan)),
              "buildApplyWithJoinType", ap.p)))


(***************************************************************************)
(* The catalog the builder reads: the tables, their columns, and whether   *)
(* the primary key is the row handle (PKIsHandle, the key column's index). *)
(***************************************************************************)
Catalog ==
    [t1 |-> [Columns |-> <<"a", "b">>, PKIsHandle |-> FALSE, pk |-> 0],
     t2 |-> [Columns |-> <<"a", "c">>, PKIsHandle |-> TRUE, pk |-> 1],
     t3 |-> [Columns |-> <<"c", "a">>, PKIsHandle |-> FALSE, pk |-> 0]]

\* buildDataSource, lines 1161-1255
BuildDataSource(b0, tn) ==
    IF b0.panic # "" THEN Res(b0, NilPlan)
    ELSE
      Let(Enter(b0, "buildDataSource"), LAMBDA b1 :
        IF tn.Name \notin DOMAIN Catalog
          THEN Ret(SetErr(b1, "buildDataSource", "ErrTableNotExists", TRUE), "buildDataSource", NilPlan)
          ELSE
            Let(Catalog[tn.Name], LAMBDA tableInfo :
            Let(InitNode(b1, "DataSource"), LAMBDA ds :
            Let(ds.b.nodes[ds.p].id, LAMBDA id :
            Let([x \in DOMAIN tableInfo.Columns |->
                              Column(id, x - 1, tableInfo.Columns[x], tn.Name, x)], LAMBDA schema :
            Let(SetAttr(ds.b, ds.p, [tableInfo |-> tn.Name, TableAsName |-> "",
                                               NeedColHandle |-> b1.needColHandle > 0]), LAMBDA b2 :
            Let(Column(id, Len(schema), "_rowid", tn.Name, ExtraHandleID), LAMBDA idCol :
              IF b1.needColHandle = 0 /\ ~b1.txnRW
                THEN Ret(SetSchema(b2, ds.p, schema), "buildDataSource", ds.p)
                ELSE IF ~tableInfo.PKIsHandle
                THEN Ret(SetSchema(b2, ds.p, Append(schema, idCol)), "buildDataSource", ds.p)
                ELSE Ret(SetSchema(b2, ds.p, schema), "buildDataSource", ds.p))))))))

RECURSIVE AggLoopNoCombine(_, _, _, _)
\* a variant that keeps every aggregate built, equal to an earlier one or not
AggLoopNoCombine(b, p, aggs, acc) ==
    IF aggs = <<>> THEN [b |-> b, p |-> p, acc |-> acc, err |-> "", fresh |-> FALSE]
    ELSE Let(RewriteList(b, p, Head(aggs).args, NoMapper, TRUE, <<>>), LAMBDA rw :
           IF rw.b.panic # "" \/ rw.err # ""
             THEN [b |-> rw.b, p |-> p, acc |-> acc, err |-> rw.err, fresh |-> rw.fresh]
             ELSE
               Let([f |-> Head(aggs).name, args |-> rw.exprs, distinct |-> FALSE], LAMBDA newFunc :
                 AggLoopNoCombine(rw.b, rw.p, Tail(aggs),
                       [AggFuncs    |-> Append(acc.AggFuncs, newFunc),
                        aggIndexMap |-> Append(acc.aggIndexMap, Len(acc.AggFuncs)),
                        built       |-> Append(acc.built, newFunc)])))

RECURSIVE AggLoop(_, _, _, _)
\* the loop of buildAggregation over aggFuncList, lines 68-99
AggLoop(b, p, aggs, acc) ==
    IF aggs = <<>> THEN [b |-> b, p |-> p, acc |-> acc, err |-> "", fresh |-> FALSE]
    ELSE Let(RewriteList(b, p, Head(aggs).args, NoMapper, TRUE, <<>>), LAMBDA rw :
           IF rw.b.panic # "" \/ rw.err # ""
             THEN [b |-> rw.b, p |-> p, acc |-> acc, err |-> rw.err, fresh |-> rw.fresh]
             ELSE
               Let([f |-> Head(aggs).name, args |-> rw.exprs, distinct |-> FALSE], LAMBDA newFunc :
               Let({j \in DOMAIN acc.AggFuncs : acc.AggFuncs[j] = newFunc}, LAMBDA same :
                 AggLoop(rw.b, rw.p, Tail(aggs),
                       IF same # {}
                       THEN [acc EXCEPT !.aggIndexMap =
                                Append(@, (CHOOSE j \in same : \A x \in same : j <= x) - 1),
                                        !.built = Append(@, newFunc)]
                       ELSE [AggFuncs    |-> Append(acc.AggFuncs, newFunc),
                             aggIndexMap |-> Append(acc.aggIndexMap, Len(acc.AggFuncs)),
                             built       |-> Append(acc.built, newFunc)]))))

\* a variant that gives the forwarded columns the id of the Aggregation
BuildAggregationOwnsAll(b0, p0, aggFuncList, gbyItems) ==
    IF b0.panic # "" THEN Res(b0, NilPlan) @@ [aggIndexMap |-> <<>>]
    ELSE
      Let(InitNode(Enter(b0, "buildAggregation"), "Aggregation"), LAMBDA agg :
      Let(agg.b.nodes[agg.p].id, LAMBDA id :
      Let(AggLoop(agg.b, p0, aggFuncList,
                  [AggFuncs |-> <<>>, aggIndexMap |-> <<>>, built |-> <<>>]),
          LAMBDA lp :
        IF lp.b.panic # "" THEN Res(lp.b, NilPlan) @@ [aggIndexMap |-> <<>>]
          ELSE IF lp.err # ""
          THEN Ret(SetErr(lp.b, "buildAggregation", lp.err, lp.fresh), "buildAggregation", NilPlan)
                 @@ [aggIndexMap |-> <<>>]
          ELSE
            LET child  == SchemaOf(lp.b, lp.p)
                schema == [x \in DOMAIN lp.acc.AggFuncs |->
                              Column(id, x - 1, id[1] \o "_" \o ToString(id[2]) \o "_col_" \o ToString(x - 1),
                                     "", 0)]
                              \o [x \in DOMAIN child |-> [child[x] EXCEPT !.FromID = id]]
                funcs  == lp.acc.AggFuncs \o [x \in DOMAIN child |-> FirstRow(child[x])]
                b2     == SetAttr(addChild(lp.b, agg.p, lp.p), agg.p,
                                  [AggFuncs |-> funcs, GroupByItems |-> gbyItems])
                b3     == [b2 EXCEPT !.aggLog =
                              Append(@, [agg |-> agg.p, built |-> lp.acc.built,
                                         kept |-> Len(lp.acc.AggFuncs),
                                         aggIndexMap |-> lp.acc.aggIndexMap])]
            IN  Ret(SetSchema(b3, agg.p, schema), "buildAggregation", agg.p)
                  @@ [aggIndexMap |-> lp.acc.aggIndexMap])))

\* buildAggregation, lines 60-110: the plan and aggIndexMap (index i at aggIndexMap[i+1])
BuildAggregation(b0, p0, aggFuncList, gbyItems) ==
    IF b0.panic # "" THEN Res(b0, NilPlan) @@ [aggIndexMap |-> <<>>]
    ELSE
      Let(InitNode(Enter(b0, "buildAggregation"), "Aggregation"), LAMBDA agg :
      Let(agg.b.nodes[agg.p].id, LAMBDA id :
      Let(AggLoop(agg.b, p0, aggFuncList,
                  [AggFuncs |-> <<>>, aggIndexMap |-> <<>>, built |-> <<>>]),
          LAMBDA lp :
        IF lp.b.panic # "" THEN Res(lp.b, NilPlan) @@ [aggIndexMap |-> <<>>]
          ELSE IF lp.err # ""
          THEN Ret(SetErr(lp.b, "buildAggregation", lp.err, lp.fresh), "buildAggregation", NilPlan)
                 @@ [aggIndexMap |-> <<>>]
          ELSE
            LET child  == SchemaOf(lp.b, lp.p)
                schema == [x \in DOMAIN lp.acc.AggFuncs |->
                              Column(id, x - 1, id[1] \o "_" \o ToString(id[2]) \o "_col_" \o ToString(x - 1),
                                     "", 0)] \o child
                funcs  == lp.acc.AggFuncs \o [x \in DOMAIN child |-> FirstRow(child[x])]
                b2     == SetAttr(addChild(lp.b, agg.p, lp.p), agg.p,
                                  [AggFuncs |-> funcs, GroupByItems |-> gbyItems])
                b3     == [b2 EXCEPT !.aggLog =
                              Append(@, [agg |-> agg.p, built |-> lp.acc.built,
                                         kept |-> Len(lp.acc.AggFuncs),
                                         aggIndexMap |-> lp.acc.aggIndexMap])]
            IN  Ret(SetSchema(b3, agg.p, schema), "buildAggregation", agg.p)
                  @@ [aggIndexMap |-> lp.acc.aggIndexMap])))

(***************************************************************************)
(* The expression rewriter, b.rewrite(expr, p, aggMapper, asScalar): it    *)
(* returns the expression, the plan (with an Apply on top for a sub-query) *)
(* and an error.                                                           *)
(***************************************************************************)
RewriteSub(b0, e, p, mapper, asScalar) ==
    Let(FirstSub(e), LAMBDA sub :
    Let([b0 EXCEPT !.outerSchemas = Append(@, SchemaOf(b0, p))], LAMBDA b1 :
    Let(Call("BuildResultSetNode", <<b1, sub.args[1]>>), LAMBDA r :
    Let([r.b EXCEPT !.outerSchemas = b0.outerSchemas], LAMBDA b2 :
      IF b2.panic # "" THEN RwRes(b2, NilPlan, <<NilExpr>>, "", FALSE)
        ELSE IF b2.err # "" THEN RwRes(b2, NilPlan, <<NilExpr>>, b2.err, FALSE)
        ELSE
          Let(CASE sub.name = "exists" ->
                           Let(BuildExists(b2, r.p), LAMBDA ex :
                             BuildSemiApply(ex.b, p, ex.b.nodes[ex.p].children[1], asScalar, FALSE))
                      [] sub.name = "in" -> BuildSemiApply(b2, p, r.p, asScalar, FALSE)
                      [] OTHER ->
                           Let(BuildMaxOneRow(b2, r.p), LAMBDA m :
                             BuildApplyWithJoinType(m.b, p, m.p, "LeftOuterJoin")), LAMBDA np :
            RwRes(np.b, np.p,
                    <<IF e.k = "sub" /\ ~asScalar /\ sub.name # "scalar"
                      THEN NilExpr ELSE Shape(e, SchemaOf(np.b, np.p), RwCtx(np.b, mapper))>>,
                    "", FALSE))))))

Rewrite(b, e, p, mapper, asScalar) ==
    IF b.panic # "" THEN RwRes(b, NilPlan, <<NilExpr>>, "", FALSE)
    ELSE
      Let(RewriteErr(e, SchemaOf(b, p), RwCtx(b, mapper)), LAMBDA err :
        IF err = "panic"
          THEN RwRes(Panic(b, "rewrite: schema.Columns[index]").b, NilPlan, <<NilExpr>>, "", FALSE)
          ELSE IF err # "" THEN RwRes(b, NilPlan, <<NilExpr>>, err, TRUE)
          ELSE IF Contains(e, "sub") THEN RewriteSub(b, e, p, mapper, asScalar)
          ELSE RwRes(b, p, <<Shape(e, SchemaOf(b, p), RwCtx(b, mapper))>>, "", FALSE))

(***************************************************************************)
(* Resolution of HAVING, ORDER BY and GROUP BY against the select fields.  *)
(* An index result is the pair [index, err], index -1 for "not found".     *)
(***************************************************************************)
Idx(index, err) == [index |-> index, err |-> err]

\* colMatch, lines 676-683 (the schema names are empty)
colMatch(a, b) == (a.tbl = "" \/ a.tbl = b.tbl) /\ Lower(a.name) = Lower(b.name)

\* matchField, lines 685-698
matchField(f, col, ignoreAsName) ==
    IF col.tbl = ""
    THEN IF f.asName = "" \/ ignoreAsName
         THEN f.expr.k = "col" /\ Lower(f.expr.name) = Lower(col.name)
         ELSE Lower(f.asName) = Lower(col.name)
    ELSE FALSE

RECURSIVE FieldsLoop(_, _, _, _, _)
\* the loop of resolveFromSelectFields from field i on; matched is the index found so far
FieldsLoop(v, fields, ignoreAsName, i, matched) ==
    IF i > Len(fields) THEN Idx(matched, "")
    ELSE IF fields[i].aux \/ ~matchField(fields[i], v, ignoreAsName)
    THEN FieldsLoop(v, fields, ignoreAsName, i + 1, matched)
    ELSE IF fields[i].expr.k # "col" THEN Idx(i - 1, "")
    ELSE IF matched = -1 THEN FieldsLoop(v, fields, ignoreAsName, i + 1, i - 1)
    ELSE IF /\ ~colMatch(fields[matched + 1].expr, fields[i].expr)
            /\ ~colMatch(fields[i].expr, fields[matched + 1].expr)
    THEN Idx(-1, "ErrAmbiguous")
    ELSE FieldsLoop(v, fields, ignoreAsName, i + 1, matched)

\* resolveFromSelectFields, lines 700-722
resolveFromSelectFields(v, fields, ignoreAsName) == FieldsLoop(v, fields, ignoreAsName, 1, -1)

\* the resolver of resolveHavingAndOrderBy, lines 854-860
NewResolver(b, p, fields) ==
    [inAggFunc |-> FALSE, inExpr |-> FALSE, orderBy |-> FALSE, err |-> "",
     schema |-> SchemaOf(b, p), selectFields |-> fields, aggMapper |-> NoMapper,
     colMapper |-> b.colMapper, gbyItems |-> <<>>, outerSchemas |-> b.outerSchemas,
     root |-> NoExpr, log |-> <<>>]

\* havingAndOrderbyExprResolver.resolveFromSchema, lines 755-780: the resolver
\* afterwards, the index and the error
resolveFromSchema(a, v, schema) ==
    Let(FindColumn(schema, v.tbl, v.name), LAMBDA f :
      IF f.err # "" THEN [a |-> a] @@ Idx(-1, f.err)
        ELSE IF ~f.found THEN [a |-> a] @@ Idx(-1, "")
        ELSE
          Let(ColE(f.col.TblName, f.col.ColName), LAMBDA newColName :
          Let({i \in DOMAIN a.selectFields :
                          /\ a.selectFields[i].expr.k = "col"
                          /\ colMatch(newColName, a.selectFields[i].expr)}, LAMBDA hits :
            IF hits # {}
              THEN [a |-> a] @@ Idx((CHOOSE i \in hits : \A j \in hits : i <= j) - 1, "")
              ELSE [a |-> [a EXCEPT !.selectFields = Append(@, AuxField(newColName, ""))]]
                     @@ Idx(Len(a.selectFields), ""))))

\* whether a GROUP BY item is a column that matches v, lines 799-805
NamesGbyItem(gbyItems, v) ==
    \E x \in DOMAIN gbyItems :
        /\ gbyItems[x].expr.k = "col"
        /\ (colMatch(v, gbyItems[x].expr) \/ colMatch(gbyItems[x].expr, v))

\* resolveFieldsFirst of Leave, lines 794-806
ResolveFieldsFirst(a, v) ==
    /\ ~(a.inAggFunc \/ (a.orderBy /\ a.inExpr))
    /\ ~(~a.inAggFunc /\ ~a.orderBy /\ NamesGbyItem(a.gbyItems, v))

\* the ColumnNameExpr case of Leave, lines 793-844: the resolver afterwards, the
\* node returned and ok
LeaveColumn(a, v) ==
    Let(ResolveFieldsFirst(a, v), LAMBDA resolveFieldsFirst :
    Let(resolveFromSelectFields(v, a.selectFields, FALSE), LAMBDA first :
    Let(resolveFromSchema(a, v, a.schema), LAMBDA fromS :
    Let(IF resolveFieldsFirst
             THEN IF first.err # "" \/ first.index # -1 THEN [a |-> a] @@ first
                  ELSE IF a.orderBy THEN fromS
                  ELSE [a |-> a] @@ resolveFromSelectFields(v, a.selectFields, TRUE)
             ELSE IF fromS.index # -1 THEN [a |-> fromS.a] @@ Idx(fromS.index, "")
                  ELSE [a |-> fromS.a] @@ first, LAMBDA r :
      IF r.err # "" THEN [a |-> [r.a EXCEPT !.err = r.err], n |-> v, ok |-> FALSE]
        ELSE IF r.index = -1
        THEN IF InOuter(a.outerSchemas, v) THEN [a |-> r.a, n |-> v, ok |-> TRUE]
             ELSE [a |-> [r.a EXCEPT !.err = "ErrUnknownColumn"], n |-> v, ok |-> FALSE]
        ELSE IF a.inAggFunc
        THEN [a |-> r.a, n |-> r.a.selectFields[r.index + 1].expr, ok |-> TRUE]
        ELSE [a |-> [r.a EXCEPT !.colMapper = (v.uid :> r.index) @@ @], n |-> v, ok |-> TRUE]))))

\* a variant that records the ordinal after the field is appended
AggOrdinalAfter(a) == Len(a.selectFields) + 1

\* line 787: the ordinal recorded for an aggregate, len(a.selectFields)
AggOrdinal(a) == Len(a.selectFields)

\* havingAndOrderbyExprResolver.Leave, lines 783-847
ResolverLeave(a, n) ==
    CASE n.k = "agg" ->
           [a |-> [a EXCEPT !.inAggFunc = FALSE,
                            !.aggMapper = (n.uid :> AggOrdinal(a)) @@ @,
                            !.selectFields =
                                Append(@, AuxField(n, "sel_agg_" \o ToString(Len(a.selectFields))))],
            n |-> n, ok |-> TRUE]
      [] n.k = "col" ->
           LeaveColumn([a EXCEPT !.log = Append(@, [v |-> n, root |-> a.root, orderBy |-> a.orderBy,
                                                    gbyItems |-> a.gbyItems,
                                                    fieldsFirst |-> ResolveFieldsFirst(a, n)])], n)
      [] OTHER -> [a |-> a, n |-> n, ok |-> TRUE]

\* havingAndOrderbyExprResolver.Enter, lines 740-753: the resolver afterwards
ResolverEnter(a, n) ==
    CASE n.k = "agg" -> [a EXCEPT !.inAggFunc = TRUE]
      [] n.k \in {"col", "sub"} -> a
      [] OTHER -> [a EXCEPT !.inExpr = TRUE]

RECURSIVE Accept(_, _), AcceptArgs(_, _, _)
\* n.Accept(a): Enter, the children in order up to the first that fails, Leave
Accept(a, n) ==
    IF n.k = "sub" THEN ResolverLeave(ResolverEnter(a, n), n)
    ELSE Let(AcceptArgs(ResolverEnter(a, n), n.args, <<>>), LAMBDA r :
           IF ~r.ok THEN [a |-> r.a, n |-> n, ok |-> FALSE]
             ELSE ResolverLeave(r.a, [n EXCEPT !.args = r.args]))

AcceptArgs(a, args, done) ==
    IF args = <<>> THEN [a |-> a, args |-> done, ok |-> TRUE]
    ELSE Let(Accept(a, Head(args)), LAMBDA r :
           IF ~r.ok THEN [a |-> r.a, args |-> done \o args, ok |-> FALSE]
             ELSE AcceptArgs(r.a, Tail(args), Append(done, r.n)))

RECURSIVE OrderByLoop(_, _, _)
\* the loop over sel.OrderBy.Items, lines 879-886
OrderByLoop(a, items, done) ==
    IF items = <<>> THEN [a |-> a, items |-> done, ok |-> TRUE]
    ELSE Let(Accept([a EXCEPT !.root = Head(items).expr], Head(items).expr), LAMBDA r :
           IF ~r.ok THEN [a |-> r.a, items |-> done \o items, ok |-> FALSE]
             ELSE OrderByLoop(r.a, Tail(items), Append(done, [Head(items) EXCEPT !.expr = r.n])))

NoNode == [kind |-> "nil"]

\* resolveHavingAndOrderBy, lines 852-890: the builder, the statement (its
\* Fields, Having and OrderBy rewritten) and the two maps
ResolveHavingAndOrderBy(b0, sel, p) ==
    Let(Enter(b0, "resolveHavingAndOrderBy"), LAMBDA b1 :
    Let([NewResolver(b1, p, sel.Fields) EXCEPT !.gbyItems = sel.GroupBy, !.root = sel.Having],
        LAMBDA a0 :
    Let(IF sel.Having.k = "nil" THEN [a |-> a0, n |-> sel.Having, ok |-> TRUE]
               ELSE Accept(a0, sel.Having), LAMBDA h :
    Let([h.a EXCEPT !.aggMapper = NoMapper, !.orderBy = TRUE, !.inExpr = FALSE], LAMBDA a1 :
    Let(OrderByLoop(a1, sel.OrderBy, <<>>), LAMBDA o :
    LET fail(a) == [b |-> SetErr([b1 EXCEPT !.colMapper = a.colMapper,
                                            !.resolveLog = @ \o a.log],
                                 "resolveHavingAndOrderBy", a.err, TRUE),
                    sel |-> sel, havingMap |-> NoMapper, orderMap |-> NoMapper]
    IN  IF ~h.ok THEN fail(h.a)
        ELSE IF ~o.ok THEN fail(o.a) @@ [sel |-> [sel EXCEPT !.Having = h.n]]
        ELSE [b   |-> [b1 EXCEPT !.colMapper = o.a.colMapper, !.resolveLog = @ \o o.a.log],
              sel |-> [sel EXCEPT !.Having = h.n, !.OrderBy = o.items,
                                  !.Fields = o.a.selectFields],
              havingMap |-> h.a.aggMapper, orderMap |-> o.a.aggMapper])))))

RECURSIVE CollectAggs(_), FieldAggs(_)
\* AggregateFuncExtractor: the aggregates of an expression, in the order they are left
CollectAggs(e) ==
    IF e.k = "sub" THEN <<>>
    ELSE (IF e.args = <<>> THEN <<>> ELSE FieldAggs([x \in DOMAIN e.args |-> Field(e.args[x], "")]))
         \o (IF e.k = "agg" THEN <<e>> ELSE <<>>)

\* the aggregates of the fields, in order
FieldAggs(fields) ==
    IF fields = <<>> THEN <<>> ELSE CollectAggs(Head(fields).expr) \o FieldAggs(Tail(fields))

\* extractAggFuncs, lines 892-905: the aggregates and totalAggMapper
ExtractAggFuncs(b0, fields) ==
    Let(FieldAggs(fields), LAMBDA aggList :
      [b |-> Enter(b0, "extractAggFuncs"), aggList |-> aggList,
         totalAggMapper |-> [u \in {aggList[x].uid : x \in DOMAIN aggList} |->
                                (CHOOSE x \in DOMAIN aggList :
                                    /\ aggList[x].uid = u
                                    /\ \A y \in DOMAIN aggList : aggList[y].uid = u => y <= x) - 1]])

\* a variant that takes the select field for a bare reference whenever one
\* matches
GbyLeaveColumnFieldsFirst(g, v) ==
    Let(FindColumn(g.schema, v.tbl, v.name), LAMBDA f :
    Let(resolveFromSelectFields(v, g.fields, FALSE), LAMBDA r :
      IF f.found /\ g.inExpr THEN [g |-> g, n |-> v, ok |-> TRUE]
        ELSE IF r.err # "" THEN [g |-> [g EXCEPT !.err = r.err], n |-> v, ok |-> FALSE]
        ELSE IF r.index # -1 THEN [g |-> g, n |-> g.fields[r.index + 1].expr, ok |-> TRUE]
        ELSE IF f.found THEN [g |-> g, n |-> v, ok |-> TRUE]
        ELSE [g |-> [g EXCEPT !.err = f.err], n |-> v, ok |-> FALSE]))

\* the ColumnNameExpr case of gbyResolver.Leave, lines 928-944
GbyLeaveColumn(g, v) ==
    Let(FindColumn(g.schema, v.tbl, v.name), LAMBDA f :
    Let(resolveFromSelectFields(v, g.fields, FALSE), LAMBDA r :
      IF f.found /\ g.inExpr THEN [g |-> g, n |-> v, ok |-> TRUE]
        ELSE IF r.err # "" THEN [g |-> [g EXCEPT !.err = r.err], n |-> v, ok |-> FALSE]
        ELSE IF f.found THEN [g |-> g, n |-> v, ok |-> TRUE]
        ELSE IF r.index # -1 THEN [g |-> g, n |-> g.fields[r.index + 1].expr, ok |-> TRUE]
        ELSE [g |-> [g EXCEPT !.err = f.err], n |-> v, ok |-> FALSE]))

\* gbyResolver.Leave, lines 925-953: the resolver afterwards and the node returned
GbyLeave(g, v) ==
    CASE v.k = "col" ->
           Let(GbyLeaveColumn(g, v), LAMBDA r :
             [r EXCEPT !.g.log = Append(@, [v |-> v, root |-> g.root, fields |-> g.fields,
                                            schema |-> g.schema, n |-> r.n, ok |-> r.ok])])
      [] v.k = "pos" ->
           IF v.n >= 1 /\ v.n <= Len(g.fields)
           THEN [g |-> g, n |-> g.fields[v.n].expr, ok |-> TRUE]
           ELSE [g |-> [g EXCEPT !.err = "ErrUnknownColumnInGroup"], n |-> v, ok |-> FALSE]
      [] OTHER -> [g |-> g, n |-> v, ok |-> TRUE]

\* gbyResolver.Enter, lines 915-923
GbyEnter(g, n) == IF n.k \in {"sub", "val", "col"} THEN g ELSE [g EXCEPT !.inExpr = TRUE]

RECURSIVE GbyAccept(_, _), GbyAcceptArgs(_, _, _)
GbyAccept(g, n) ==
    IF n.k = "sub" THEN GbyLeave(GbyEnter(g, n), n)
    ELSE Let(GbyAcceptArgs(GbyEnter(g, n), n.args, <<>>), LAMBDA r :
           IF ~r.ok THEN [g |-> r.g, n |-> n, ok |-> FALSE]
             ELSE GbyLeave(r.g, [n EXCEPT !.args = r.args]))

GbyAcceptArgs(g, args, done) ==
    IF args = <<>> THEN [g |-> g, args |-> done, ok |-> TRUE]
    ELSE Let(GbyAccept(g, Head(args)), LAMBDA r :
           IF ~r.ok THEN [g |-> r.g, args |-> done \o args, ok |-> FALSE]
             ELSE GbyAcceptArgs(r.g, Tail(args), Append(done, r.n)))

RECURSIVE GbyLoop(_, _, _, _, _)
\* the loop of resolveGbyExprs, lines 958-973
GbyLoop(b, p, g, items, exprs) ==
    IF items = <<>> THEN [b |-> b, p |-> p, exprs |-> exprs]
    ELSE
      Let(GbyAccept([g EXCEPT !.inExpr = FALSE, !.root = Head(items).expr, !.log = <<>>],
                    Head(items).expr), LAMBDA r :
      Let([b EXCEPT !.gbyLog = @ \o r.g.log], LAMBDA bl :
        IF r.g.err # ""
          THEN [b |-> SetErr(bl, "resolveGbyExprs", r.g.err, TRUE), p |-> NilPlan, exprs |-> <<>>]
          ELSE
            Let(Call("Rewrite", <<bl, r.n, p, NoMapper, TRUE>>), LAMBDA rw :
              IF rw.b.panic # "" THEN [b |-> rw.b, p |-> NilPlan, exprs |-> <<>>]
                ELSE IF rw.err # ""
                THEN [b |-> SetErr(rw.b, "resolveGbyExprs", rw.err, rw.fresh),
                      p |-> NilPlan, exprs |-> <<>>]
                ELSE GbyLoop(rw.b, rw.p, r.g, Tail(items), Append(exprs, rw.exprs[1])))))

\* resolveGbyExprs, lines 955-975
ResolveGbyExprs(b0, p, gby, fields) ==
    GbyLoop(Enter(b0, "resolveGbyExprs"), p,
            [fields |-> fields, schema |-> SchemaOf(b0, p), err |-> "", inExpr |-> FALSE,
             root |-> NoExpr, log |-> <<>>],
            gby, <<>>)

RECURSIVE WildLoopKeepHandle(_, _, _, _)
\* a variant that expands the wildcard to the extra handle column too
WildLoopKeepHandle(b, schema, selectFields, i) ==
    IF i > Len(selectFields) THEN [b |-> b, resultList |-> <<>>]
    ELSE LET field == selectFields[i]
         IN  IF ~field.wild
             THEN LET rest == WildLoopKeepHandle(b, schema, selectFields, i + 1)
                  IN  [b |-> rest.b, resultList |-> <<field>> \o rest.resultList]
             ELSE IF field.wtbl = "" /\ i > 1
             THEN [b |-> SetErr(b, "unfoldWildStar", "ErrInvalidWildCard", TRUE), resultList |-> <<>>]
             ELSE
               Let(SelectSeq(schema, LAMBDA col : field.wtbl = "" \/ field.wtbl = col.TblName),
                   LAMBDA cols :
               Let(WildLoopKeepHandle(b, schema, selectFields, i + 1), LAMBDA rest :
                 [b |-> rest.b,
                    resultList |-> [x \in DOMAIN cols |->
                                       Field(ColE(cols[x].TblName, cols[x].ColName), "")]
                                   \o rest.resultList]))

RECURSIVE WildLoop(_, _, _, _)
\* the loop of unfoldWildStar from field i on, lines 978-1005
WildLoop(b, schema, selectFields, i) ==
    IF i > Len(selectFields) THEN [b |-> b, resultList |-> <<>>]
    ELSE LET field == selectFields[i]
         IN  IF ~field.wild
             THEN LET rest == WildLoop(b, schema, selectFields, i + 1)
                  IN  [b |-> rest.b, resultList |-> <<field>> \o rest.resultList]
             ELSE IF field.wtbl = "" /\ i > 1
             THEN [b |-> SetErr(b, "unfoldWildStar", "ErrInvalidWildCard", TRUE), resultList |-> <<>>]
             ELSE
               Let(SelectSeq(schema, LAMBDA col :
                               /\ (field.wtbl = "" \/ field.wtbl = col.TblName)
                               /\ col.ID # ExtraHandleID), LAMBDA cols :
               Let(WildLoop(b, schema, selectFields, i + 1), LAMBDA rest :
                 [b |-> rest.b,
                    resultList |-> [x \in DOMAIN cols |->
                                       Field(ColE(cols[x].TblName, cols[x].ColName), "")]
                                   \o rest.resultList]))

\* unfoldWildStar, lines 977-1007
unfoldWildStar(b0, p, selectFields) ==
    Let(WildLoop(Enter(b0, "unfoldWildStar"), SchemaOf(b0, p), selectFields, 1), LAMBDA w :
      [b |-> [w.b EXCEPT !.wilds = Append(@, [schema |-> SchemaOf(b0, p), fields |-> selectFields,
                                              resultList |-> w.resultList,
                                              failed |-> w.b.sets # b0.sets])],
       resultList |-> w.resultList])

TiDBMergeJoin == "tidb_smj"
TiDBIndexNestedLoopJoin == "tidb_inlj"

RECURSIVE HintTables(_, _)
\* the tables of the hints named name, in order
HintTables(hints, name) ==
    IF hints = <<>> THEN <<>>
    ELSE (IF Head(hints).HintName = name THEN Head(hints).Tables ELSE <<>>)
         \o HintTables(Tail(hints), name)

\* pushTableHints, lines 1009-1029
pushTableHints(b, hints) ==
    Let(HintTables(hints, TiDBMergeJoin), LAMBDA sortMergeTables :
    Let(HintTables(hints, TiDBIndexNestedLoopJoin), LAMBDA INLJTables :
      IF Len(sortMergeTables) # 0 \/ Len(INLJTables) # 0
        THEN [b |-> [b EXCEPT !.tableHintInfo =
                        Append(@, [sortMergeJoinTables |-> sortMergeTables,
                                   indexNestedLoopJoinTables |-> INLJTables])],
              pushed |-> TRUE]
        ELSE [b |-> b, pushed |-> FALSE]))

\* a variant that leaves the frame on the stack
popTableHintsKeep(b) == b

\* popTableHints, lines 1031-1033
popTableHints(b) == [b EXCEPT !.tableHintInfo = SubSeq(@, 1, Len(@) - 1)]

\* a variant that never finds a frame
TableHintsNone(b) == <<>>

\* TableHints, lines 1036-1041: <<>> for nil, else the top of the stack in a tuple
TableHints(b) ==
    IF Len(b.tableHintInfo) = 0 THEN <<>> ELSE <<b.tableHintInfo[Len(b.tableHintInfo)]>>

\* tableHintInfo.ifPreferMergeJoin and ifPreferINLJ: some alias is hinted ("" is no alias)
ifPreferMergeJoin(info, aliases) ==
    \E x \in DOMAIN aliases : aliases[x] # "" /\ aliases[x] \in Range(info.sortMergeJoinTables)
ifPreferINLJ(info, alias) ==
    alias # "" /\ alias \in Range(info.indexNestedLoopJoinTables)

\* extractTableAlias, lines 205-217, of a plan that is not nil ("" for a nil alias)
extractTableAlias(b, p) ==
    LET n == b.nodes[p]
    IN  IF n.tp = "DataSource"
        THEN IF n.attr.TableAsName # "" THEN n.attr.TableAsName ELSE n.attr.tableInfo
        ELSE IF Len(n.schema) > 0 /\ n.schema[1].TblName # "" THEN n.schema[1].TblName
        ELSE ""

(***************************************************************************)
(* Joins.  An ast.Join is [kind "Join", Left, Right (NoNode for nil), Tp,  *)
(* NaturalJoin, Using (the names, <<>> for nil), On (NoExpr for nil)].     *)
(***************************************************************************)
RECURSIVE IsCorrelated(_)
IsCorrelated(x) ==
    \/ x.k = "Correlated"
    \/ x.k = "Scalar" /\ Len(x.of) = 3 /\ \E y \in DOMAIN x.of[3] : IsCorrelated(x.of[3][y])

RECURSIVE SplitCNFItems(_)
\* expression.SplitCNFItems: the conjuncts of the rewritten condition
SplitCNFItems(x) ==
    IF x.k = "Scalar" /\ Len(x.of) = 3 /\ x.of[1] = "and"
    THEN SplitCNFItems(x.of[3][1]) \o SplitCNFItems(x.of[3][2])
    ELSE <<x>>

\* LogicalJoin{}: the zero value of the fields the builder sets
JoinZero ==
    [JoinType |-> "InnerJoin", cartesianJoin |-> FALSE, preferMergeJoin |-> FALSE,
     preferINLJ |-> {}, redundantSchema |-> <<>>, EqualConditions |-> <<>>,
     OnConditions |-> <<>>, DefaultValues |-> 0]

RedundantOf(b, p) == IF b.nodes[p].tp = "Join" THEN b.nodes[p].attr.redundantSchema ELSE <<>>

\* buildUsingClause (lines 303-309) and buildNaturalJoin (lines 317-319) over
\* coalesceCommonColumns: the builder afterwards and the error
BuildCoalesce(b, joinPlan, leftPlan, rightPlan, join) ==
    Let(IF join.NaturalJoin THEN NilFilter
                  ELSE UsingFilter({Lower(join.Using[x]) : x \in DOMAIN join.Using}),
        LAMBDA filter :
    Let(CoalesceLoop(CoalesceStart(SchemaOf(b, leftPlan), SchemaOf(b, rightPlan),
                                          join.Tp = "RightJoin", filter)), LAMBDA st :
    Let(CoalesceFinish(st, join.Tp = "RightJoin",
                              b.nodes[joinPlan].attr.redundantSchema,
                              b.nodes[joinPlan].attr.EqualConditions), LAMBDA fin :
      IF st.panic THEN [b |-> Panic(b, "coalesceCommonColumns: index out of range").b, err |-> ""]
        ELSE IF Unseen(st) # {} THEN [b |-> b, err |-> "ErrUnknownColumn"]
        ELSE [b |-> SetAttr(SetSchema(b, joinPlan, fin.schema), joinPlan,
                            [redundantSchema |-> fin.redundant, EqualConditions |-> fin.eqConds]),
              err |-> ""])))

\* buildJoin from the hints on, lines 245-295
JoinFinish(b, joinPlan, leftPlan, rightPlan, join, leftAlias, rightAlias) ==
    Let(TableHints(b), LAMBDA hint :
    Let(hint # <<>> /\ ifPreferMergeJoin(hint[1], <<leftAlias, rightAlias>>), LAMBDA merge :
    Let(IF hint = <<>> THEN {}
                   ELSE (IF ifPreferINLJ(hint[1], leftAlias) THEN {"preferLeftAsOuter"} ELSE {})
                        \cup (IF ifPreferINLJ(hint[1], rightAlias) THEN {"preferRightAsOuter"} ELSE {}),
        LAMBDA inlj :
    Let(SetAttr([b EXCEPT !.hintLog =
                    Append(@, [join |-> joinPlan, stack |-> b.tableHintInfo,
                               aliases |-> <<leftAlias, rightAlias>>, at |-> Len(b.rets),
                               selStack |-> b.selStack, tp |-> join.Tp,
                               cond |-> join.NaturalJoin \/ join.Using # <<>> \/ join.On.k # "nil"])],
                joinPlan, [preferMergeJoin |-> merge, preferINLJ |-> inlj]), LAMBDA b1 :
    LET fail(bb, err, fresh) == Fail(bb, "buildJoin", err, fresh)
        types(bb) ==
            Ret(SetAttr(bb, joinPlan,
                    CASE join.Tp = "LeftJoin" ->
                           [JoinType |-> "LeftOuterJoin", DefaultValues |-> Len(SchemaOf(bb, rightPlan))]
                      [] join.Tp = "RightJoin" ->
                           [JoinType |-> "RightOuterJoin", DefaultValues |-> Len(SchemaOf(bb, leftPlan))]
                      [] OTHER -> [JoinType |-> "InnerJoin"]),
                "buildJoin", joinPlan)
    IN  IF merge /\ inlj # {} THEN fail(b1, "ErrHintsConflict", TRUE)
        ELSE IF join.NaturalJoin \/ join.Using # <<>>
        THEN Let(BuildCoalesce(b1, joinPlan, leftPlan, rightPlan, join), LAMBDA c :
               IF c.b.panic # "" THEN Res(c.b, NilPlan)
                 ELSE IF c.err # "" THEN fail(c.b, c.err, TRUE)
                 ELSE types(c.b))
        ELSE IF join.On.k # "nil"
        THEN Let(Call("Rewrite", <<b1, join.On, joinPlan, NoMapper, FALSE>>), LAMBDA rw :
               IF rw.b.panic # "" THEN Res(rw.b, NilPlan)
                 ELSE IF rw.err # "" THEN fail(rw.b, rw.err, rw.fresh)
                 ELSE IF rw.exprs[1].k = "nil"
                 THEN Panic(rw.b, "buildJoin: onExpr.IsCorrelated() of a nil expression")
                 ELSE IF IsCorrelated(rw.exprs[1]) THEN fail(rw.b, "ErrOnCorrelated", TRUE)
                 ELSE types(SetAttr(rw.b, joinPlan, [OnConditions |-> SplitCNFItems(rw.exprs[1])])))
        ELSE IF b1.nodes[joinPlan].attr.JoinType = "InnerJoin"
        THEN types(SetAttr(b1, joinPlan, [cartesianJoin |-> TRUE]))
        ELSE types(b1)))))

\* buildJoin, lines 219-296
BuildJoin(b0, join) ==
    IF b0.panic # "" THEN Res(b0, NilPlan)
    ELSE
      Let(Enter(b0, "buildJoin"), LAMBDA b1 :
        IF join.Right.kind = "nil"
          THEN LET r == Call("BuildResultSetNode", <<b1, join.Left>>)
               IN  IF r.b.panic # "" THEN r ELSE Ret(r.b, "buildJoin", r.p)
          ELSE
            Let(Call("BuildResultSetNode", <<b1, join.Left>>), LAMBDA l :
            Let(Call("BuildResultSetNode", <<l.b, join.Right>>), LAMBDA r :
              IF r.b.panic # "" THEN Res(r.b, NilPlan)
                ELSE IF l.p = NilPlan \/ r.p = NilPlan
                THEN Panic(r.b, "extractTableAlias: p.Schema() of a nil plan")
                ELSE
                  Let(InitNode(r.b, "Join"), LAMBDA j :
                  Let(SetAttr(addChild(addChild(j.b, j.p, l.p), j.p, r.p), j.p, JoinZero),
                      LAMBDA b2 :
                  Let(SetAttr(SetSchema(b2, j.p, SchemaOf(b2, l.p) \o SchemaOf(b2, r.p)), j.p,
                                    [redundantSchema |-> RedundantOf(b2, l.p) \o RedundantOf(b2, r.p)]),
                      LAMBDA b3 :
                    JoinFinish(b3, j.p, l.p, r.p, join,
                                 extractTableAlias(b3, l.p), extractTableAlias(b3, r.p))))))))

(***************************************************************************)
(* buildResultSetNode, lines 112-150.  An ast.TableSource is               *)
(* [kind "TableSource", Source, AsName]; a table name [kind "TableName",   *)
(* Name].                                                                  *)
(***************************************************************************)
BuildResultSetNode(b0, node) ==
    IF b0.panic # "" THEN Res(b0, NilPlan)
    ELSE
      Let(Enter(b0, "buildResultSetNode"), LAMBDA b1 :
      LET done(r) == IF r.b.panic # "" THEN r ELSE Ret(r.b, "buildResultSetNode", r.p) IN
          Let(Fail(b1, "buildResultSetNode", "ErrUnsupportedType", TRUE), LAMBDA unsupported :
        CASE node.kind = "Join" -> done(Call("BuildJoin", <<b1, node>>))
            [] node.kind = "SelectStmt" -> done(Call("BuildSelect", <<b1, node>>))
            [] node.kind = "UnionStmt" -> done(Call("BuildUnion", <<b1, node>>))
            [] node.kind = "TableSource" ->
                 IF node.Source.kind \notin {"SelectStmt", "UnionStmt", "TableName"} THEN unsupported
                 ELSE
                   Let(CASE node.Source.kind = "SelectStmt" -> Call("BuildSelect", <<b1, node.Source>>)
                              [] node.Source.kind = "UnionStmt" -> Call("BuildUnion", <<b1, node.Source>>)
                              [] OTHER -> BuildDataSource(b1, node.Source), LAMBDA r :
                     IF r.b.panic # "" THEN r
                       ELSE IF r.b.err # "" THEN Ret(r.b, "buildResultSetNode", NilPlan)
                       ELSE
                         Let(IF r.b.nodes[r.p].tp = "DataSource"
                                   THEN SetAttr(r.b, r.p, [TableAsName |-> node.AsName])
                                   ELSE r.b, LAMBDA b2 :
                         Let(IF node.AsName = "" THEN b2
                                   ELSE SetSchema(b2, r.p,
                                            [x \in DOMAIN SchemaOf(b2, r.p) |->
                                                [SchemaOf(b2, r.p)[x] EXCEPT !.TblName = node.AsName]]),
                             LAMBDA b3 :
                           Ret(b3, "buildResultSetNode", r.p))))
            [] OTHER -> unsupported))

(***************************************************************************)
(* buildUnion, lines 523-589.  An ast.UnionStmt is [kind "UnionStmt",      *)
(* Selects, Distinct, OrderBy (<<>> for nil), Limit].                      *)
(***************************************************************************)
Limit(offset, count) == [present |-> TRUE, Offset |-> offset, Count |-> count]
NoLimit == [present |-> FALSE, Offset |-> NoValue, Count |-> NoValue]

Stopped(b) == b.panic # "" \/ b.err # ""

RECURSIVE UnionSelects(_, _, _)
\* the first loop, lines 526-531: the children built up to the first error
UnionSelects(b, selects, children) ==
    IF selects = <<>> THEN [b |-> b, children |-> children]
    ELSE LET r == Call("BuildSelect", <<b, Head(selects)>>)
         IN  IF Stopped(r.b) THEN [b |-> r.b, children |-> children]
             ELSE UnionSelects(r.b, Tail(selects), Append(children, r.p))

\* a variant that leaves out sel.SetParents(proj)
UnionWrapNoParent(b, sel) ==
    Let(InitNode(b, "Projection"), LAMBDA proj :
    Let(proj.b.nodes[proj.p].id, LAMBDA id :
    Let([x \in DOMAIN SchemaOf(b, sel) |-> [SchemaOf(b, sel)[x] EXCEPT !.FromID = id]],
        LAMBDA sch :
      Res(SetChildren(SetSchema(proj.b, proj.p, sch), proj.p, <<sel>>), proj.p))))

\* lines 538-548: the Projection that wraps a branch that is not one
UnionWrap(b, sel) ==
    Let(InitNode(b, "Projection"), LAMBDA proj :
    Let(proj.b.nodes[proj.p].id, LAMBDA id :
    Let([x \in DOMAIN SchemaOf(b, sel) |-> [SchemaOf(b, sel)[x] EXCEPT !.FromID = id]],
        LAMBDA sch :
      Res(SetChildren(SetParents(SetSchema(proj.b, proj.p, sch), sel, <<proj.p>>),
                        proj.p, <<sel>>),
            proj.p))))

RECURSIVE UnionBranchesAnyArity(_, _, _, _)
\* a variant that does not compare the branch's arity with the first's
UnionBranchesAnyArity(b, u, i, firstLen) ==
    IF i > Len(b.nodes[u].children) THEN [b |-> b, err |-> ""]
    ELSE
      LET sel == b.nodes[u].children[i]
      IN  IF b.nodes[sel].tp # "Projection"
          THEN Let(UnionWrap(b, sel), LAMBDA w :
               Let([w.b EXCEPT !.nodes[u].children[i] = w.p], LAMBDA b1 :
                 UnionBranchesAnyArity(SetParents(b1, w.p, <<u>>), u, i + 1, firstLen)))
          ELSE UnionBranchesAnyArity(SetParents(b, sel, <<u>>), u, i + 1, firstLen)

RECURSIVE UnionBranches(_, _, _, _)
\* the second loop, lines 533-570, from branch i on
UnionBranches(b, u, i, firstLen) ==
    IF i > Len(b.nodes[u].children) THEN [b |-> b, err |-> ""]
    ELSE
      LET sel == b.nodes[u].children[i]
      IN  IF firstLen # Len(SchemaOf(b, sel)) THEN [b |-> b, err |-> "ErrDifferentColumns"]
          ELSE IF b.nodes[sel].tp # "Projection"
          THEN Let(UnionWrap(b, sel), LAMBDA w :
               Let([w.b EXCEPT !.nodes[u].children[i] = w.p], LAMBDA b1 :
                 UnionBranches(SetParents(b1, w.p, <<u>>), u, i + 1, firstLen)))
          ELSE UnionBranches(SetParents(b, sel, <<u>>), u, i + 1, firstLen)

BuildUnion(b0, union) ==
    IF b0.panic # "" THEN Res(b0, NilPlan)
    ELSE
      Let(InitNode(Enter(b0, "buildUnion"), "Union"), LAMBDA u :
      Let(UnionSelects(u.b, union.Selects, <<>>), LAMBDA cs :
        IF cs.b.panic # "" THEN Res(cs.b, NilPlan)
          ELSE IF cs.b.err # "" THEN Ret(cs.b, "buildUnion", NilPlan)
          ELSE
            Let(SetChildren(cs.b, u.p, cs.children), LAMBDA b1 :
            Let(SchemaOf(b1, cs.children[1]), LAMBDA firstSchema :
            Let(UnionBranches(b1, u.p, 1, Len(firstSchema)), LAMBDA br :
              IF br.err # ""
                THEN Fail(br.b, "buildUnion", br.err, TRUE)
                ELSE
                  Let(SetSchema(br.b, u.p,
                                [x \in DOMAIN firstSchema |->
                                    [firstSchema[x] EXCEPT !.FromID = br.b.nodes[u.p].id]]),
                      LAMBDA b2 :
                  Let(IF union.Distinct
                            THEN BuildDistinct(b2, u.p, Len(SchemaOf(b2, u.p))) ELSE Res(b2, u.p),
                      LAMBDA d :
                  Let(IF union.OrderBy # <<>>
                            THEN BuildSort(d.b, d.p, union.OrderBy, NoMapper) ELSE d, LAMBDA so :
                  Let(IF union.Limit.present THEN BuildLimit(so.b, so.p, union.Limit) ELSE so,
                      LAMBDA li :
                    IF li.b.panic # "" THEN Res(li.b, NilPlan)
                      ELSE Ret(li.b, "buildUnion", li.p))))))))))

(***************************************************************************)
(* buildSelect, lines 1043-1153.  An ast.SelectStmt is [kind "SelectStmt", *)
(* TableHints (<<>> for nil), LockTp, From (NoNode for nil, else the Join  *)
(* of TableRefs), Fields, GroupBy and OrderBy (<<>> for nil), Where and    *)
(* Having (NoExpr for nil), Distinct, Limit].                              *)
(***************************************************************************)
RECURSIVE HasAgg(_)
HasAgg(e) == e.k = "agg" \/ (e.k # "sub" /\ \E x \in DOMAIN e.args : HasAgg(e.args[x]))

\* detectSelectAgg
detectSelectAgg(sel) ==
    \/ sel.GroupBy # <<>>
    \/ \E x \in DOMAIN sel.Fields : ~sel.Fields[x].wild /\ HasAgg(sel.Fields[x].expr)
    \/ sel.Having.k # "nil" /\ HasAgg(sel.Having)
    \/ \E x \in DOMAIN sel.OrderBy : HasAgg(sel.OrderBy[x].expr)

\* a variant that returns the plan untrimmed
SelectNoTrim(b, p, oldLen) == Res(b, p)

\* lines 1139-1150: the trimming Projection
SelectTrim(b, p, oldLen) ==
    IF oldLen = Len(SchemaOf(b, p)) THEN Res(b, p)
    ELSE
      Let(InitNode(b, "Projection"), LAMBDA proj :
      Let(proj.b.nodes[proj.p].id, LAMBDA id :
      Let(addChild(proj.b, proj.p, p), LAMBDA b1 :
        IF oldLen > Len(SchemaOf(b, p))
          THEN Panic(proj.b, "buildSelect: Columns[:oldLen]")
          ELSE Res(SetSchema(b1, proj.p,
                             [x \in 1..oldLen |-> [SchemaOf(b, p)[x] EXCEPT !.FromID = id]]),
                   proj.p))))

\* buildSelect from buildProjection on, lines 1107-1152
SelectProject(b, p0, sel, totalMap, havingMap, orderMap, nFields) ==
    Let(BuildProjection(b, p0, sel.Fields, totalMap), LAMBDA pr :
    Let([pr.b EXCEPT !.projs =
                  Append(@, [fields |-> sel.Fields, havingMap |-> havingMap, orderMap |-> orderMap,
                             proj |-> pr.p, schema |-> SchemaOf(pr.b, pr.p)])], LAMBDA b1 :
    Let(IF sel.Having.k # "nil" THEN BuildSelection(b1, pr.p, sel.Having, havingMap)
              ELSE Res(b1, pr.p), LAMBDA hv :
    Let(IF sel.Distinct THEN BuildDistinct(hv.b, hv.p, pr.oldLen) ELSE hv, LAMBDA ds :
    Let(IF sel.OrderBy # <<>> THEN BuildSort(ds.b, ds.p, sel.OrderBy, orderMap) ELSE ds,
        LAMBDA so :
    Let(IF sel.Limit.present THEN BuildLimit(so.b, so.p, sel.Limit) ELSE so, LAMBDA li :
    Let(IF sel.LockTp = "ForUpdate" THEN [li.b EXCEPT !.needColHandle = @ - 1] ELSE li.b,
        LAMBDA b2 :
    Let(SelectTrim(b2, li.p, pr.oldLen), LAMBDA tr :
      IF Stopped(pr.b) THEN Res(pr.b, NilPlan)
        ELSE IF Stopped(hv.b) THEN Res(hv.b, NilPlan)
        ELSE IF Stopped(ds.b) THEN Res(ds.b, NilPlan)
        ELSE IF Stopped(so.b) THEN Res(so.b, NilPlan)
        ELSE IF Stopped(li.b) THEN Res(li.b, NilPlan)
        ELSE IF tr.b.panic # "" THEN tr
        ELSE Res([tr.b EXCEPT !.sels =
                     Append(@, [nFields |-> nFields, nAll |-> Len(sel.Fields), p |-> tr.p,
                                len |-> Len(SchemaOf(tr.b, tr.p)),
                                shape |-> <<sel.Having.k # "nil", sel.Distinct,
                                            sel.OrderBy # <<>>, sel.Limit.present>>])],
                 tr.p)))))))))

\* buildSelect from resolveHavingAndOrderBy to buildAggregation, lines 1084-1106
SelectResolve(b, p0, sel1, gbyCols, hasAgg, nFields) ==
    Let(ResolveHavingAndOrderBy(b, sel1, p0), LAMBDA rh :
    Let(rh.sel, LAMBDA sel :
    Let(IF sel.Where.k # "nil" THEN BuildSelection(rh.b, p0, sel.Where, NoMapper)
               ELSE Res(rh.b, p0), LAMBDA wh :
    Let(IF sel.LockTp # "None" THEN BuildSelectLock(wh.b, wh.p, sel.LockTp) ELSE wh, LAMBDA lk :
    Let(ExtractAggFuncs(lk.b, sel.Fields), LAMBDA ex :
    Let(BuildAggregation(ex.b, lk.p, ex.aggList, gbyCols), LAMBDA ag :
    Let([u \in DOMAIN ex.totalAggMapper |->
                        ag.aggIndexMap[ex.totalAggMapper[u] + 1]], LAMBDA totalMap :
      IF sel.Where.k # "nil" /\ Stopped(wh.b) THEN Res(wh.b, NilPlan)
        ELSE IF ~hasAgg
        THEN SelectProject(lk.b, lk.p, sel, NoMapper, rh.havingMap, rh.orderMap, nFields)
        ELSE IF Stopped(ex.b) THEN Res(ex.b, NilPlan)
        ELSE IF Stopped(ag.b) THEN Res(ag.b, NilPlan)
        ELSE SelectProject(ag.b, ag.p, sel, totalMap, rh.havingMap, rh.orderMap, nFields))))))))

\* buildSelect up to resolveGbyExprs, lines 1064-1080
SelectFrom(b, sel0, hasAgg) ==
    Let(IF sel0.From.kind # "nil" THEN Call("BuildResultSetNode", <<b, sel0.From>>)
                ELSE BuildTableDual(b), LAMBDA from :
    Let(unfoldWildStar(from.b, from.p, sel0.Fields), LAMBDA unf :
    Let([sel0 EXCEPT !.Fields = unf.resultList], LAMBDA sel1 :
    Let(IF sel1.GroupBy # <<>>
                THEN ResolveGbyExprs(unf.b, from.p, sel1.GroupBy, sel1.Fields)
                ELSE [b |-> unf.b, p |-> from.p, exprs |-> <<>>], LAMBDA gby :
      IF Stopped(from.b) THEN Res(from.b, NilPlan)
        ELSE IF Stopped(unf.b) THEN Res(unf.b, NilPlan)
        ELSE IF Stopped(gby.b) THEN Res(gby.b, NilPlan)
        ELSE SelectResolve(gby.b, gby.p, sel1, gby.exprs, hasAgg, Len(unf.resultList))))))

BuildSelect(b0, sel) ==
    IF b0.panic # "" THEN Res(b0, NilPlan)
    ELSE
      Let(pushTableHints(Enter(b0, "buildSelect"), sel.TableHints), LAMBDA h :
      Let(IF sel.LockTp = "ForUpdate" THEN [h.b EXCEPT !.needColHandle = @ + 1] ELSE h.b,
          LAMBDA b1 :
      Let(SelectFrom([b1 EXCEPT !.selStack = Append(@, h.pushed)], sel, detectSelectAgg(sel)),
          LAMBDA body :
      Let(IF h.pushed THEN popTableHints(body.b) ELSE body.b, LAMBDA b2 :
      Let([b2 EXCEPT !.selStack = SubSeq(@, 1, Len(@) - 1),
                     !.selLog = Append(@, [hints |-> sel.TableHints, pushed |-> h.pushed,
                                           depthIn |-> Len(b0.tableHintInfo),
                                           depthBody |-> Len(body.b.tableHintInfo),
                                           depthOut |-> Len(b2.tableHintInfo),
                                           nested |-> Len(b0.selStack),
                                           err |-> b2.err, panic |-> b2.panic])],
          LAMBDA b3 :
        IF b3.panic # "" THEN Res(b3, NilPlan) ELSE Ret(b3, "buildSelect", body.p))))))

(***************************************************************************)
(* buildUpdate (lines 1355-1401) and buildDelete (lines 1449-1508).  An    *)
(* ast.UpdateStmt is [kind "UpdateStmt", TableRefs, Where, Order, Limit,   *)
(* List (assignments [Column, Expr])], an ast.DeleteStmt the same without  *)
(* List.                                                                   *)
(***************************************************************************)
\* baseLogicalPlan.findColumn: an error when the column is not in the schema
findColumn(b, p, column) ==
    Let(FindColumn(SchemaOf(b, p), column.tbl, column.name), LAMBDA f :
      IF f.err # "" THEN f.err ELSE IF ~f.found THEN "ErrColumnNotFound" ELSE "")

RECURSIVE UpdateAssigns(_, _, _, _)
\* the second loop of buildUpdateLists, lines 1430-1445
UpdateAssigns(b, p, list, newList) ==
    IF list = <<>> THEN [b |-> b, p |-> p, newList |-> newList]
    ELSE
      Let(Call("Rewrite", <<b, Head(list).Expr, p, NoMapper, FALSE>>), LAMBDA rw :
        IF findColumn(b, p, Head(list).Column) # ""
          THEN [b |-> SetErr(b, "buildUpdateLists", findColumn(b, p, Head(list).Column), TRUE),
                p |-> NilPlan, newList |-> <<>>]
          ELSE IF rw.b.panic # "" THEN [b |-> rw.b, p |-> NilPlan, newList |-> <<>>]
          ELSE IF rw.err # ""
          THEN [b |-> SetErr(rw.b, "buildUpdateLists", rw.err, rw.fresh),
                p |-> NilPlan, newList |-> <<>>]
          ELSE UpdateAssigns(rw.b, rw.p, Tail(list),
                             Append(newList, [Col |-> Head(list).Column, Expr |-> rw.exprs[1]])))

\* buildUpdateLists, lines 1403-1447 (no table has a generated column)
BuildUpdateLists(b0, list, p) ==
    Let(Enter(b0, "buildUpdateLists"), LAMBDA b1 :
    Let({x \in DOMAIN list : findColumn(b1, p, list[x].Column) # ""}, LAMBDA bad :
      IF bad # {}
        THEN [b |-> SetErr(b1, "buildUpdateLists",
                           findColumn(b1, p, list[CHOOSE x \in bad : \A y \in bad : x <= y].Column),
                           TRUE),
              p |-> NilPlan, newList |-> <<>>]
        ELSE UpdateAssigns(b1, p, list, <<>>)))

\* the Where, Order and Limit steps shared by buildUpdate and buildDelete
ModifySource(b, node) ==
    Let(Call("BuildResultSetNode", <<b, node.TableRefs>>), LAMBDA p :
    Let(IF node.Where.k # "nil" THEN BuildSelection(p.b, p.p, node.Where, NoMapper) ELSE p,
        LAMBDA wh :
    Let(IF node.Order # <<>> THEN BuildSort(wh.b, wh.p, node.Order, NoMapper) ELSE wh,
        LAMBDA so :
    Let(IF node.Limit.present THEN BuildLimit(so.b, so.p, node.Limit) ELSE so, LAMBDA li :
      IF Stopped(p.b) THEN Res(p.b, NilPlan)
        ELSE IF Stopped(wh.b) THEN Res(wh.b, NilPlan)
        ELSE IF Stopped(so.b) THEN Res(so.b, NilPlan)
        ELSE IF Stopped(li.b) THEN Res(li.b, NilPlan)
        ELSE li))))

BuildUpdate(b0, update) ==
    Let([Enter(b0, "buildUpdate") EXCEPT !.inUpdateStmt = TRUE, !.needColHandle = @ + 1],
        LAMBDA b1 :
    Let(ModifySource(b1, update), LAMBDA src :
    Let(BuildUpdateLists(src.b, update.List, src.p), LAMBDA ul :
    Let(InitNode(ul.b, "Update"), LAMBDA updt :
    Let(SetAttr(addChild(updt.b, updt.p, ul.p), updt.p, [OrderedList |-> ul.newList]),
        LAMBDA b2 :
      IF src.b.panic # "" THEN Res(src.b, NilPlan)
        ELSE IF src.b.err # "" THEN Ret(src.b, "buildUpdate", NilPlan)
        ELSE IF ul.b.panic # "" THEN Res(ul.b, NilPlan)
        ELSE IF ul.b.err # "" THEN Ret(ul.b, "buildUpdate", NilPlan)
        ELSE Ret(SetSchema(b2, updt.p, SchemaOf(b2, ul.p)), "buildUpdate", updt.p))))))

BuildDelete(b0, delete) ==
    Let([Enter(b0, "buildDelete") EXCEPT !.needColHandle = @ + 1], LAMBDA b1 :
    Let(ModifySource(b1, delete), LAMBDA src :
    Let(InitNode(src.b, "Delete"), LAMBDA del :
    Let(SetAttr(addChild(del.b, del.p, src.p), del.p, [IsMultiTable |-> FALSE]), LAMBDA b2 :
      IF src.b.panic # "" THEN Res(src.b, NilPlan)
        ELSE IF src.b.err # "" THEN Ret(src.b, "buildDelete", NilPlan)
        ELSE Ret(SetSchema(b2, del.p, <<>>), "buildDelete", del.p)))))

\* One entry point for the builder's functions that call one another (buildSelect
\* builds its FROM through buildResultSetNode, which builds joins, selects and
\* unions; the rewriter builds the plan of every sub-query): fn names the function
\* and args holds its arguments in the order of its parameters.
Call(fn, args) ==
    CASE fn = "Rewrite" -> Rewrite(args[1], args[2], args[3], args[4], args[5])
      [] fn = "BuildSelect" -> BuildSelect(args[1], args[2])
      [] fn = "BuildUnion" -> BuildUnion(args[1], args[2])
      [] fn = "BuildJoin" -> BuildJoin(args[1], args[2])
      [] fn = "BuildResultSetNode" -> BuildResultSetNode(args[1], args[2])
      [] fn = "BuildUpdate" -> BuildUpdate(args[1], args[2])
      [] fn = "BuildDelete" -> BuildDelete(args[1], args[2])

(***************************************************************************)
(* The statements built.                                                   *)
(***************************************************************************)
MaxSelects == 2

TableName(n) == [kind |-> "TableName", Name |-> n]
TableSource(src, as) == [kind |-> "TableSource", Source |-> src, AsName |-> as]
Join(l, r, tp, natural, using, on) ==
    [kind |-> "Join", Left |-> l, Right |-> r, Tp |-> tp, NaturalJoin |-> natural,
     Using |-> using, On |-> on]
\* a FROM clause: TableRefs is a Join whose Right is nil
TableRefs(x) == Join(x, NoNode, "CrossJoin", FALSE, <<>>, NoExpr)
T(n) == TableSource(TableName(n), "")

SelectStmt(from, fields, where, gby, having, distinct, orderBy, limit, lock, hints) ==
    [kind |-> "SelectStmt", TableHints |-> hints, LockTp |-> lock, From |-> from,
     Fields |-> fields, GroupBy |-> gby, Having |-> having, Where |-> where,
     Distinct |-> distinct, OrderBy |-> orderBy, Limit |-> limit]
SimpleSelect(from, fields, where) ==
    SelectStmt(from, fields, where, <<>>, NoExpr, FALSE, <<>>, NoLimit, "None", <<>>)
UnionStmt(selects, distinct, orderBy, limit) ==
    [kind |-> "UnionStmt", Selects |-> selects, Distinct |-> distinct,
     OrderBy |-> orderBy, Limit |-> limit]

A == ColE("", "a")
Eq(l, r) == Expr("op", "", "", "eq", 0, <<l, r>>)
IntV(n) == [tp |-> "int64", v |-> n]

\* the sub-queries: plain, correlated (b is a column of the outer t1 only),
\* over a missing table, and over a join with a missing table
SubPlain == SimpleSelect(TableRefs(T("t2")), <<Field(A, "")>>, NoExpr)
SubCorr == SimpleSelect(TableRefs(T("t3")), <<Field(ColE("", "c"), "")>>, Eq(ColE("", "c"), ColE("", "b")))
SubAgg == SimpleSelect(TableRefs(T("t2")), <<Field(AggE("s1", "count", <<A>>), "")>>, NoExpr)
SubDistinct == SelectStmt(TableRefs(T("t1")), <<Field(A, "")>>, NoExpr, <<>>, NoExpr, TRUE, <<>>,
                          NoLimit, "None", <<>>)
SubBad == SimpleSelect(TableRefs(T("tx")), <<Field(A, "")>>, NoExpr)
SubJoinBad == SimpleSelect(TableRefs(Join(T("tx"), T("t1"), "CrossJoin", FALSE, <<>>, NoExpr)),
                           <<Field(A, "")>>, NoExpr)

Froms ==
    {NoNode,
     TableRefs(T("t1")),
     TableRefs(TableSource(TableName("t2"), "x")),
     TableRefs(T("tx")),
     TableRefs(Join(T("t1"), T("t2"), "CrossJoin", FALSE, <<>>, NoExpr)),
     TableRefs(Join(T("t1"), T("t2"), "CrossJoin", FALSE, <<"a">>, NoExpr)),
     TableRefs(Join(T("t1"), T("t2"), "RightJoin", FALSE, <<"A">>, NoExpr)),
     TableRefs(Join(T("t1"), T("t2"), "CrossJoin", FALSE, <<"b">>, NoExpr)),
     TableRefs(Join(T("t1"), T("t3"), "CrossJoin", TRUE, <<>>, NoExpr)),
     TableRefs(Join(T("t1"), T("t2"), "LeftJoin", FALSE, <<>>,
                    Eq(ColE("t1", "a"), ColE("t2", "a")))),
     TableRefs(Join(T("t1"), T("t2"), "CrossJoin", FALSE, <<>>, BadE)),
     TableRefs(Join(T("t1"), T("t2"), "LeftJoin", FALSE, <<>>, NoExpr)),
     TableRefs(Join(T("t1"), T("t2"), "RightJoin", FALSE, <<>>, NoExpr)),
     TableRefs(Join(T("tx"), T("t1"), "CrossJoin", FALSE, <<>>, NoExpr)),
     TableRefs(Join(T("t1"), T("tx"), "CrossJoin", FALSE, <<>>, NoExpr)),
     TableRefs(Join(Join(T("t1"), T("t2"), "CrossJoin", FALSE, <<"a">>, NoExpr), T("t3"),
                    "CrossJoin", FALSE, <<"a">>, NoExpr)),
     TableRefs(TableSource(SubPlain, "s")),
     TableRefs(Join(T("t1"), T("t2"), "CrossJoin", FALSE, <<>>,
                    Eq(ColE("t1", "a"), SubE("scalar", SubAgg)))),
     TableRefs(TableSource(UnionStmt(<<SubPlain, SubDistinct>>, FALSE, <<>>, NoLimit), "u"))}

FieldLists ==
    {<<WildField("")>>,
     <<Field(A, "")>>,
     <<Field(A, "x"), Field(AggE("f1", "sum", <<ColE("", "b")>>), "")>>,
     <<Field(ColE("", "b"), ""), WildField("")>>,
     <<WildField("t1"), Field(SubE("scalar", SubAgg), "")>>,
     <<Field(BadE, "")>>}

Wheres ==
    {NoExpr,
     Eq(A, ValE),
     SubE("exists", SubCorr),
     AndE(Eq(A, ValE), SubE("in", SubPlain)),
     SubE("in", SubBad),
     SubE("exists", SubJoinBad)}

GroupBys == {<<>>, <<ByItem(A)>>}

Havings ==
    {NoExpr,
     Eq(AggE("h1", "sum", <<ColU("h2", "", "x")>>), ValE),
     Eq(ColU("h3", "", "zz"), ValE)}

OrderBys ==
    {<<>>,
     <<ByItem(ColU("o1", "", "b"))>>,
     <<ByItem(AggE("o2", "count", <<ColU("o3", "", "a")>>)), ByItem(ColU("o4", "", "a"))>>,
     <<ByItem(ColU("o5", "", "zz"))>>}

Limits == {NoLimit, Limit(NoValue, IntV(1))}

\* the SELECT statements: every combination of the clauses over a few sources
CoreFroms ==
    {TableRefs(T("t1")),
     TableRefs(Join(T("t1"), T("t2"), "CrossJoin", FALSE, <<"a">>, NoExpr)),
     TableRefs(TableSource(SubPlain, "s"))}

CoreWheres == {NoExpr, Eq(A, ValE), AndE(Eq(A, ValE), SubE("in", SubPlain))}

PlainSelects ==
    {SelectStmt(f, fl, w, g, h, d, o, l, "None", <<>>) :
        f \in CoreFroms, fl \in FieldLists, w \in CoreWheres, g \in GroupBys, h \in Havings,
        d \in BOOLEAN, o \in OrderBys, l \in Limits}

\* every source and every WHERE
FromSelects ==
    {SelectStmt(f, fl, w, <<>>, h, FALSE, o, NoLimit, "None", <<>>) :
        f \in Froms, w \in Wheres,
        fl \in {<<WildField("")>>, <<Field(A, "")>>,
                <<WildField("t1"), Field(SubE("scalar", SubAgg), "")>>},
        h \in {NoExpr, Eq(ColU("h3", "", "zz"), ValE)},
        o \in {<<>>, <<ByItem(ColU("o1", "", "b"))>>}}

\* with a lock, hints, a GROUP BY position, or a LIMIT that does not convert
Hints ==
    {<<[HintName |-> TiDBMergeJoin, Tables |-> <<"t1">>]>>,
     <<[HintName |-> TiDBIndexNestedLoopJoin, Tables |-> <<"t2">>]>>,
     <<[HintName |-> TiDBMergeJoin, Tables |-> <<"t1">>],
       [HintName |-> TiDBIndexNestedLoopJoin, Tables |-> <<"t2">>]>>,
     <<[HintName |-> "other", Tables |-> <<"t1">>]>>}

SpecialSelects ==
    {SelectStmt(f, fl, NoExpr, g, NoExpr, FALSE, o, l, lock, h) :
        f \in {TableRefs(T("t1")),
               TableRefs(Join(T("t1"), T("t2"), "CrossJoin", FALSE, <<>>, NoExpr))},
        fl \in {<<WildField("")>>, <<Field(A, "x"), Field(ColE("", "b"), "")>>},
        g \in {<<>>, <<ByItem(PosE(1))>>, <<ByItem(PosE(3))>>, <<ByItem(ColE("", "x"))>>},
        o \in {<<>>, <<ByItem(ColU("o1", "", "b"))>>},
        l \in {NoLimit, Limit(IntV(-1), IntV(1)), Limit(IntV(0), [tp |-> "float", v |-> 1])},
        lock \in {"None", "ForUpdate", "Share"},
        h \in Hints \cup {<<>>}}

\* aggregates that are equal after rewriting, in the fields, HAVING and ORDER BY
AggSelects ==
    {SelectStmt(TableRefs(T("t1")), fl, NoExpr, g, h, FALSE, o, NoLimit, "None", <<>>) :
        fl \in {<<Field(AggE("g1", "sum", <<ColE("", "b")>>), ""),
                  Field(AggE("g2", "sum", <<ColE("t1", "b")>>), "s"),
                  Field(AggE("g3", "count", <<ColE("", "b")>>), "")>>,
                <<Field(AggE("g1", "count", <<A>>), ""), Field(AggE("g2", "count", <<A>>), "")>>,
                <<Field(A, ""), Field(AggE("g1", "sum", <<ColE("", "b")>>), "")>>},
        g \in GroupBys,
        h \in {NoExpr, Eq(AggE("g4", "sum", <<ColU("g5", "", "b")>>), ValE)},
        o \in {<<>>, <<ByItem(AggE("g6", "count", <<ColU("g7", "", "a")>>))>>}}

\* HAVING and ORDER BY over aliased fields, with and without GROUP BY: bare
\* columns, columns under an aggregate, and a bare ORDER BY item before and
\* after an item that is an expression
ResolveSelects ==
    {SelectStmt(TableRefs(T("t1")), fl, NoExpr, g, h, FALSE, o, NoLimit, "None", <<>>) :
        fl \in {<<Field(A, "b")>>, <<Field(ColE("", "b"), "a"), Field(A, "")>>},
        g \in GroupBys \cup {<<ByItem(ColE("", "b"))>>, <<ByItem(Eq(ColE("", "b"), ValE))>>},
        h \in {NoExpr,
               Eq(ColU("r1", "", "a"), ValE),
               Eq(AggE("r2", "sum", <<ColU("r3", "", "b")>>), ColU("r4", "", "a"))},
        o \in {<<>>,
               <<ByItem(ColU("r9", "", "a"))>>,
               <<ByItem(Eq(ColU("r5", "", "a"), ValE)), ByItem(ColU("r6", "", "b"))>>,
               <<ByItem(ColU("r7", "", "b")), ByItem(Eq(ColU("r8", "", "a"), ValE))>>}}

\* SELECTs nested in FROM, as a derived table, a union branch or a side of a
\* join, with hints on the outer SELECT, the inner one, both or none
InnerJoinSelect(h, t) ==
    SelectStmt(TableRefs(Join(T("t1"), T(t), "CrossJoin", FALSE, <<>>, NoExpr)),
               <<Field(ColE("t1", "a"), "")>>, NoExpr, <<>>, NoExpr, FALSE, <<>>, NoLimit, "None", h)

NestedSelects ==
    {SelectStmt(TableRefs(src), <<WildField("")>>, NoExpr, <<>>, NoExpr, FALSE, <<>>, NoLimit,
                "None", h) :
        h \in Hints \cup {<<>>},
        src \in {TableSource(InnerJoinSelect(h2, t), "s") : h2 \in Hints \cup {<<>>}, t \in {"t2", "tx"}}
                \cup {TableSource(UnionStmt(<<SubPlain, InnerJoinSelect(h2, "t2")>>, FALSE, <<>>, NoLimit),
                                  "u") : h2 \in Hints \cup {<<>>}}
                \cup {Join(TableSource(InnerJoinSelect(h2, "t2"), "t1"), T("t2"), "CrossJoin", FALSE,
                           <<>>, NoExpr) : h2 \in Hints \cup {<<>>}}
                \cup {TableSource(SimpleSelect(TableRefs(TableSource(InnerJoinSelect(h2, "t2"), "s")),
                                               <<WildField("")>>, NoExpr), "r") :
                          h2 \in Hints \cup {<<>>}}}

UnionBranch ==
    {SubPlain, SubBad,
     SimpleSelect(TableRefs(T("t1")), <<WildField("")>>, NoExpr),
     SubDistinct,
     SelectStmt(TableRefs(T("t1")), <<Field(A, "")>>, NoExpr, <<>>, NoExpr, FALSE,
                <<ByItem(ColU("o1", "", "b"))>>, NoLimit, "None", <<>>)}

UnionStmts ==
    {UnionStmt(ss, d, o, l) :
        ss \in SeqsUpTo(UnionBranch, MaxSelects) \ {<<>>}, d \in BOOLEAN,
        o \in {<<>>, <<ByItem(A)>>, <<ByItem(ColE("", "zz"))>>},
        l \in {NoLimit, Limit(NoValue, IntV(1)), Limit(IntV(-1), IntV(1))}}

ModifyRefs ==
    {TableRefs(T("t1")), TableRefs(T("t2")), TableRefs(T("tx")),
     TableRefs(Join(T("t1"), T("t2"), "CrossJoin", FALSE, <<>>,
                    Eq(ColE("t1", "a"), ColE("t2", "a"))))}

Assign(col, expr) == [Column |-> col, Expr |-> expr]

UpdateStmts ==
    {[kind |-> "UpdateStmt", TableRefs |-> r, Where |-> w, Order |-> o, Limit |-> l, List |-> a] :
        r \in ModifyRefs,
        w \in {NoExpr, Eq(A, ValE), SubE("in", SubPlain)},
        o \in {<<>>, <<ByItem(ColE("", "b"))>>},
        l \in Limits,
        a \in {<<Assign(ColE("t1", "b"), ValE)>>, <<Assign(ColE("", "zz"), ValE)>>,
               <<Assign(ColE("", "c"), BadE)>>,
               <<Assign(ColE("t1", "b"), SubE("scalar", SubAgg)), Assign(ColE("t1", "a"), ValE)>>}}

DeleteStmts ==
    {[kind |-> "DeleteStmt", TableRefs |-> r, Where |-> w, Order |-> o, Limit |-> l] :
        r \in ModifyRefs,
        w \in {NoExpr, Eq(A, ValE), SubE("exists", SubCorr), SubE("in", SubBad)},
        o \in {<<>>, <<ByItem(ColE("", "b"))>>, <<ByItem(ColE("", "zz"))>>},
        l \in Limits \cup {Limit(IntV(-1), IntV(1))}}

Statements ==
    PlainSelects \cup FromSelects \cup SpecialSelects \cup AggSelects \cup ResolveSelects \cup NestedSelects
        \cup UnionStmts \cup UpdateStmts \cup DeleteStmts

(***************************************************************************)
(* The builds: a statement is handed to a fresh builder, in a transaction  *)
(* that has written (txnRW) or not.                                        *)
(***************************************************************************)
NoCoalesce == [status |-> "idle"]

BuildInit ==
    /\ stmt \in {[txnRW |-> FALSE, node |-> n] : n \in Statements}
                 \cup {[txnRW |-> TRUE, node |-> n] :
                          n \in Statements \ (PlainSelects \cup FromSelects)}
    /\ res = NoResult
    /\ cin = NoCoalesce
    /\ cst = NoCoalesce
    /\ cout = NoCoalesce
    /\ mgr = NoManagers
    /\ keys = <<>>
    /\ ext = NoExtract

Built(r) == [status |-> "done", b |-> r.b, p |-> r.p]

BuildSelectStmt ==
    /\ res.status = "running"
    /\ stmt.node.kind = "SelectStmt"
    /\ res' = Built(Call("BuildSelect", <<NewBuilder(stmt.txnRW), stmt.node>>))
    /\ UNCHANGED <<stmt, cvars, ovars, xvars>>

BuildUnionStmt ==
    /\ res.status = "running"
    /\ stmt.node.kind = "UnionStmt"
    /\ res' = Built(Call("BuildUnion", <<NewBuilder(stmt.txnRW), stmt.node>>))
    /\ UNCHANGED <<stmt, cvars, ovars, xvars>>

BuildUpdateStmt ==
    /\ res.status = "running"
    /\ stmt.node.kind = "UpdateStmt"
    /\ res' = Built(Call("BuildUpdate", <<NewBuilder(stmt.txnRW), stmt.node>>))
    /\ UNCHANGED <<stmt, cvars, ovars, xvars>>

BuildDeleteStmt ==
    /\ res.status = "running"
    /\ stmt.node.kind = "DeleteStmt"
    /\ res' = Built(Call("BuildDelete", <<NewBuilder(stmt.txnRW), stmt.node>>))
    /\ UNCHANGED <<stmt, cvars, ovars, xvars>>

BuildNext == BuildSelectStmt \/ BuildUnionStmt \/ BuildUpdateStmt \/ BuildDeleteStmt

SpecBuild == BuildInit /\ [][BuildNext]_vars

(***************************************************************************)
(* Claims about the builds (checked under SpecBuild).                      *)
(***************************************************************************)
Done == res.status = "done"

\* C1: once a build step has set b.err, no further build step of the build
\* runs and no later step sets b.err to another error.
C1_ErrLatched ==
    Done =>
        /\ \A x \in DOMAIN res.b.calls : res.b.calls[x].err = ""
        /\ \A x \in DOMAIN res.b.sets : res.b.sets[x].fresh => res.b.sets[x].prev = ""

PublicBuilds ==
    {"buildSelect", "buildUnion", "buildJoin", "buildResultSetNode", "buildUpdate", "buildDelete"}

\* C2: whenever buildSelect, buildUnion, buildJoin, buildResultSetNode,
\* buildUpdate or buildDelete returns with b.err set, the plan returned is nil.
C2_NoPartialPlan ==
    Done =>
        \A x \in DOMAIN res.b.rets :
            (res.b.rets[x].fn \in PublicBuilds /\ res.b.rets[x].err # "") =>
                res.b.rets[x].p = NilPlan

\* a build that made nodes and then returned an error from buildJoin and buildSelect
C2_ErrorAfterNodes ==
    /\ Done
    /\ res.b.panic = ""
    /\ Len(res.b.nodes) > 2
    /\ \E x, y \in DOMAIN res.b.rets :
          /\ res.b.rets[x].fn = "buildJoin" /\ res.b.rets[x].err # ""
          /\ res.b.rets[y].fn = "buildSelect" /\ res.b.rets[y].err # ""

\* C7: the schema of the plan a successful buildSelect returns has as many
\* columns as the select list has non-auxiliary fields after the wildcards
\* are unfolded.
C7_SelectArity ==
    Done => \A x \in DOMAIN res.b.sels : res.b.sels[x].len = res.b.sels[x].nFields

\* a successful SELECT with HAVING, DISTINCT, ORDER BY and LIMIT that had
\* auxiliary fields appended
C7_AuxStripped ==
    /\ Done
    /\ \E x \in DOMAIN res.b.sels :
          /\ res.b.sels[x].nAll > res.b.sels[x].nFields
          /\ res.b.sels[x].shape = <<TRUE, TRUE, TRUE, TRUE>>

AggMaps(pj) == {pj.havingMap, pj.orderMap}

\* C8: for every aggregate recorded in the HAVING map or the ORDER BY map,
\* the select field at the recorded index is an auxiliary field whose
\* expression is that aggregate, and the projection built from the fields has
\* an output column at that ordinal.
C8_AggOrdinalValid ==
    Done =>
        \A x \in DOMAIN res.b.projs : \A m \in AggMaps(res.b.projs[x]) : \A u \in DOMAIN m :
            LET pj == res.b.projs[x]
            IN  /\ m[u] + 1 \in DOMAIN pj.fields
                /\ pj.fields[m[u] + 1].aux
                /\ pj.fields[m[u] + 1].expr.k = "agg"
                /\ pj.fields[m[u] + 1].expr.uid = u
                /\ m[u] + 1 \in DOMAIN pj.schema
                /\ pj.schema[m[u] + 1].ColName = pj.fields[m[u] + 1].asName

\* a projection built with an aggregate in each of the two maps
C8_BothMaps ==
    /\ Done
    /\ \E x \in DOMAIN res.b.projs :
          /\ DOMAIN res.b.projs[x].havingMap # {}
          /\ DOMAIN res.b.projs[x].orderMap # {}

\* C9: the counter of every id allocated is larger than that of all the ids
\* allocated before it, and no two nodes carry the same id.
C9_IdsIncrease ==
    Done =>
        \A x, y \in DOMAIN res.b.nodes :
            x < y => /\ res.b.nodes[x].id[2] < res.b.nodes[y].id[2]
                     /\ res.b.nodes[x].id # res.b.nodes[y].id

\* a build with a LogicalApply copied from a LogicalJoin and a Selection that
\* was initialised and then discarded
C9_CopyAndDiscard ==
    /\ Done
    /\ \E x, y \in DOMAIN res.b.nodes :
          /\ res.b.nodes[x].tp = "Apply"
          /\ res.b.nodes[x - 1].tp = "Join"
          /\ res.b.nodes[x - 1].children = res.b.nodes[x].children
          /\ res.b.nodes[y].tp = "Selection"
          /\ res.b.nodes[y].children = <<>>
          /\ res.b.nodes[y].parents = <<>>

RECURSIVE ReachFrom(_, _, _)
\* the nodes reachable from the frontier through children
ReachFrom(b, frontier, seen) ==
    IF frontier = {} THEN seen
    ELSE LET new == UNION {Range(b.nodes[n].children) : n \in frontier} \ (seen \cup frontier)
         IN  ReachFrom(b, new, seen \cup frontier)

Reach(b, root) == ReachFrom(b, {root}, {})

\* C10: in the plan a successful build returns, for all nodes n and c
\* reachable from the root, c is a child of n if and only if n is a parent of c.
C10_ParentChildSymmetric ==
    (Done /\ res.p # NilPlan) =>
        \A n, c \in Reach(res.b, res.p) :
            (c \in Range(res.b.nodes[n].children)) <=> (n \in Range(res.b.nodes[c].parents))

\* a plan returned with an Apply and a Union with a wrapped branch in it
C10_ApplyAndUnion ==
    /\ Done
    /\ res.p # NilPlan
    /\ \E n, u, w \in Reach(res.b, res.p) :
          /\ res.b.nodes[n].tp = "Apply"
          /\ res.b.nodes[u].tp = "Union"
          /\ w \in Range(res.b.nodes[u].children)
          /\ res.b.nodes[res.b.nodes[w].children[1]].tp = "Aggregation"

(***************************************************************************)
(* Claims about the schemas of the plan nodes (checked under SpecBuild).   *)
(***************************************************************************)

\* no two columns of the schema share the owner id and the position
SchemaUnique(schema) ==
    \A i, j \in DOMAIN schema :
        (schema[i].FromID = schema[j].FromID /\ schema[i].Position = schema[j].Position) => i = j

\* C11: in the output schema of every plan node built (data source with or
\* without _rowid, join, USING/NATURAL join, aggregation, projection, union,
\* trim projection, semi-join, apply), no two columns share both the
\* owning-operator id and the position.
C11_SchemaUnique ==
    Done => \A n \in DOMAIN res.b.nodes : SchemaUnique(res.b.nodes[n].schema)

\* a build with an Aggregation over a join that coalesced columns, whose schema
\* has two columns at the same position under different owner ids
C11_SamePositionOtherOwner ==
    /\ Done
    /\ \E n, j \in DOMAIN res.b.nodes :
          /\ res.b.nodes[n].tp = "Aggregation"
          /\ res.b.nodes[j].tp = "Join"
          /\ j \in Range(res.b.nodes[n].children)
          /\ "redundantSchema" \in DOMAIN res.b.nodes[j].attr
          /\ res.b.nodes[j].attr.redundantSchema # <<>>
          /\ \E x, y \in DOMAIN res.b.nodes[n].schema :
                /\ res.b.nodes[n].schema[x].Position = res.b.nodes[n].schema[y].Position
                /\ res.b.nodes[n].schema[x].FromID # res.b.nodes[n].schema[y].FromID

(***************************************************************************)
(* The unknown-column error of a USING join (checked under SpecCoalesce).  *)
(***************************************************************************)

\* C12: the outcome of a USING join, success or failure and the column named
\* in the unknown-column error, is the same for every iteration order of the
\* name-filter map: when the error is returned, every order of ranging over
\* the map names the column that was named.
C12_OrderIndependent ==
    cout.status = "err" => \A col \in Unseen(cst) : col = cout.col

(***************************************************************************)
(* Claims about buildUnion (checked under SpecBuild).  A Union node has    *)
(* its children once every branch was built without an error.              *)
(***************************************************************************)
UnionNodes(b) == {u \in DOMAIN b.nodes : b.nodes[u].tp = "Union" /\ b.nodes[u].children # <<>>}

\* the arities of the branches of the Union u
UnionArities(b, u) ==
    [i \in DOMAIN b.nodes[u].children |-> Len(SchemaOf(b, b.nodes[u].children[i]))]

ArityMismatch(b, u) == \E i \in DOMAIN UnionArities(b, u) : UnionArities(b, u)[i] # UnionArities(b, u)[1]

\* C13: buildUnion fails (error set, nil plan returned) whenever some branch
\* was built with an arity other than the first branch's; when all branches
\* were built with the same arity no arity error is raised and the schema of
\* the Union has that arity.
C13_UnionArity ==
    Done =>
        /\ \A u \in UnionNodes(res.b) :
              IF ArityMismatch(res.b, u)
              THEN /\ SchemaOf(res.b, u) = <<>>
                   /\ \E k \in DOMAIN res.b.sets :
                         /\ res.b.sets[k].fn = "buildUnion"
                         /\ res.b.sets[k].new = "ErrDifferentColumns"
                   /\ \E k \in DOMAIN res.b.rets :
                         /\ res.b.rets[k].fn = "buildUnion"
                         /\ res.b.rets[k].err = "ErrDifferentColumns"
                         /\ res.b.rets[k].p = NilPlan
              ELSE Len(SchemaOf(res.b, u)) = UnionArities(res.b, u)[1]
        /\ (\E k \in DOMAIN res.b.sets : res.b.sets[k].new = "ErrDifferentColumns")
              => \E u \in UnionNodes(res.b) : ArityMismatch(res.b, u)
        /\ (stmt.node.kind = "UnionStmt" /\ 1 \in UnionNodes(res.b) /\ ArityMismatch(res.b, 1))
              => (res.p = NilPlan /\ res.b.err = "ErrDifferentColumns")

\* a UNION whose second branch has two columns and whose first has one
C13_SecondBranchWider ==
    /\ Done
    /\ stmt.node.kind = "UnionStmt"
    /\ 1 \in UnionNodes(res.b)
    /\ UnionArities(res.b, 1)[1] = 1
    /\ UnionArities(res.b, 1)[Len(UnionArities(res.b, 1))] = 2
    /\ res.b.err = "ErrDifferentColumns"
    /\ res.p = NilPlan

(***************************************************************************)
(* Claims about unfoldWildStar (checked under SpecBuild).                  *)
(***************************************************************************)
RECURSIVE StarColumns(_, _)
\* the columns of the schema that the qualifier tbl ("" for none) matches and
\* that are not the extra handle, in the order of the schema
StarColumns(schema, tbl) ==
    IF schema = <<>> THEN <<>>
    ELSE (IF (tbl = "" \/ Head(schema).TblName = tbl) /\ Head(schema).ID # ExtraHandleID
          THEN <<Head(schema)>> ELSE <<>>)
         \o StarColumns(Tail(schema), tbl)

RECURSIVE Unfolded(_, _)
\* the field list with every wildcard replaced by the fields of its columns
Unfolded(schema, fields) ==
    IF fields = <<>> THEN <<>>
    ELSE (IF Head(fields).wild
          THEN [x \in DOMAIN StarColumns(schema, Head(fields).wtbl) |->
                   Field(ColE(StarColumns(schema, Head(fields).wtbl)[x].TblName,
                              StarColumns(schema, Head(fields).wtbl)[x].ColName), "")]
          ELSE <<Head(fields)>>)
         \o Unfolded(schema, Tail(fields))

\* C14: expanding * or t.* yields exactly the columns of the current plan's
\* schema that match the qualifier, in schema order, without any extra handle
\* column; also when _rowid was synthesized (FOR UPDATE, or a transaction that
\* has written), so that SELECT * FROM t returns one column per declared column.
C14_WildStar ==
    Done =>
        /\ \A x \in DOMAIN res.b.wilds :
              ~res.b.wilds[x].failed =>
                  res.b.wilds[x].resultList = Unfolded(res.b.wilds[x].schema, res.b.wilds[x].fields)
        /\ \A n \in DOMAIN Catalog :
              (/\ stmt.node.kind = "SelectStmt"
               /\ stmt.node.From = TableRefs(T(n))
               /\ stmt.node.Fields = <<WildField("")>>
               /\ res.p # NilPlan)
              => [x \in DOMAIN SchemaOf(res.b, res.p) |-> SchemaOf(res.b, res.p)[x].ColName]
                    = Catalog[n].Columns

\* SELECT * FROM t1 built with needColHandle or in a transaction that has
\* written: the schema unfolded has _rowid, the result list does not
C14_StarOverRowid ==
    /\ Done
    /\ res.p # NilPlan
    /\ stmt.node.kind = "SelectStmt"
    /\ stmt.node.Fields = <<WildField("")>>
    /\ \E x \in DOMAIN res.b.wilds :
          /\ \E c \in DOMAIN res.b.wilds[x].schema : res.b.wilds[x].schema[c].ID = ExtraHandleID
          /\ Len(res.b.wilds[x].resultList) = Len(res.b.wilds[x].schema) - 1

(***************************************************************************)
(* Claims about buildAggregation (checked under SpecBuild).  An entry of   *)
(* aggLog has the Aggregation built, the aggregates built from the list in *)
(* its order, the number of them kept in AggFuncs, and aggIndexMap.        *)
(***************************************************************************)

\* C15: after buildAggregation over a list F, no two of the aggregates built
\* from F that are kept in AggFuncs are equal, and for every index i of F the
\* entry aggIndexMap[i] is a position j such that AggFuncs[j] equals the
\* aggregate built from F[i] and the schema's column at index j has Position j.
C15_AggDedup ==
    Done =>
        \A x \in DOMAIN res.b.aggLog :
            LET lg    == res.b.aggLog[x]
                funcs == res.b.nodes[lg.agg].attr.AggFuncs
                cols  == res.b.nodes[lg.agg].schema
            IN  /\ \A j, k \in 1..lg.kept : funcs[j] = funcs[k] => j = k
                /\ DOMAIN lg.aggIndexMap = DOMAIN lg.built
                /\ \A i \in DOMAIN lg.built :
                      /\ lg.aggIndexMap[i] \in 0..(lg.kept - 1)
                      /\ funcs[lg.aggIndexMap[i] + 1] = lg.built[i]
                      /\ cols[lg.aggIndexMap[i] + 1].Position = lg.aggIndexMap[i]

\* an Aggregation built over a list with two equal aggregates and a third one
C15_TwoShareOneColumn ==
    /\ Done
    /\ \E x \in DOMAIN res.b.aggLog :
          /\ res.b.aggLog[x].kept >= 2
          /\ res.b.aggLog[x].kept < Len(res.b.aggLog[x].built)

(***************************************************************************)
(* Claims about the hints (checked under SpecBuild).  An entry of hintLog  *)
(* has a join that reached the hints of buildJoin, the hint stack and the  *)
(* aliases of its sides at that point, and the number of returns before.   *)
(***************************************************************************)

\* the join of the entry returned nil with the conflicting-hints error
HintsConflict(b, lg) ==
    /\ Len(b.rets) > lg.at
    /\ b.rets[lg.at + 1] = [fn |-> "buildJoin", err |-> "ErrHintsConflict", p |-> NilPlan]

\* some side of the join is named in the list of tables
SideIn(lg, tables) == \E x \in DOMAIN lg.aliases : lg.aliases[x] # "" /\ lg.aliases[x] \in Range(tables)

\* C16: buildJoin fails with the conflicting-hints error exactly when the
\* active hint frame asks for a merge join for either side and for an index
\* nested-loop join for either side of the same join; with no active frame, or
\* with only one kind of hint matching, it does not fail for hint reasons.
C16_ConflictIff ==
    Done =>
        \A x \in DOMAIN res.b.hintLog :
            LET lg == res.b.hintLog[x]
            IN  HintsConflict(res.b, lg) <=>
                    /\ lg.stack # <<>>
                    /\ SideIn(lg, lg.stack[Len(lg.stack)].sortMergeJoinTables)
                    /\ SideIn(lg, lg.stack[Len(lg.stack)].indexNestedLoopJoinTables)

\* a join under tidb_smj(t1) and tidb_inlj(t2) that failed, in a build whose
\* error is the conflict
C16_BothKinds ==
    /\ Done
    /\ res.p = NilPlan
    /\ res.b.err = "ErrHintsConflict"
    /\ \E x \in DOMAIN res.b.hintLog :
          /\ HintsConflict(res.b, res.b.hintLog[x])
          /\ res.b.hintLog[x].aliases = <<"t1", "t2">>

\* C18 as stated: every column of the output schema of an Aggregation built
\* by buildAggregation, the columns forwarded through FIRST_ROW included,
\* carries the id of the Aggregation as its owner id.
C18_AllOwnedByAgg ==
    Done =>
        \A x \in DOMAIN res.b.aggLog :
            \A c \in DOMAIN res.b.nodes[res.b.aggLog[x].agg].schema :
                res.b.nodes[res.b.aggLog[x].agg].schema[c].FromID = res.b.nodes[res.b.aggLog[x].agg].id

\* C18 amended: the columns of the aggregates kept carry the id of the
\* Aggregation; the columns after them are the columns of the input schema,
\* forwarded through FIRST_ROW with the owner id and position they have there.
C18_OwnThenForwarded ==
    Done =>
        \A x \in DOMAIN res.b.aggLog :
            LET lg   == res.b.aggLog[x]
                node == res.b.nodes[lg.agg]
            IN  /\ \A c \in 1..lg.kept : node.schema[c].FromID = node.id
                /\ Slice(node.schema, lg.kept, Len(node.schema)) = SchemaOf(res.b, node.children[1])
                /\ \A c \in (lg.kept + 1)..Len(node.schema) : node.schema[c].FromID # node.id

\* an Aggregation with a column of its own and a column forwarded from a data source
C18_ForwardedFromDataSource ==
    /\ Done
    /\ res.p # NilPlan
    /\ \E x \in DOMAIN res.b.aggLog :
          LET lg   == res.b.aggLog[x]
              node == res.b.nodes[lg.agg]
          IN  /\ lg.kept >= 1
              /\ Len(node.schema) > lg.kept
              /\ node.schema[lg.kept + 1].FromID[1] = "DataSource"

\* the SELECT carries a hint the builder knows
KnownHint(hints) ==
    \E x \in DOMAIN hints : hints[x].HintName \in {TiDBMergeJoin, TiDBIndexNestedLoopJoin}

\* C19: for every call of buildSelect, nested to any depth, a hint frame is
\* pushed if and only if the SELECT carries a tidb_smj or tidb_inlj hint, the
\* depth of the hint stack on return equals its depth at entry on success and
\* on error alike, and popTableHints never runs on an empty stack.
C19_HintStackBalanced ==
    Done =>
        \A x \in DOMAIN res.b.selLog :
            LET lg == res.b.selLog[x]
            IN  /\ lg.pushed <=> KnownHint(lg.hints)
                /\ lg.depthOut = lg.depthIn
                /\ lg.pushed => lg.depthBody >= 1

\* a build in which a SELECT with hints nested in a SELECT with hints failed
\* and one returned a plan, each with its frame above the outer one
C19_NestedPushFailed ==
    /\ Done
    /\ \E x, y \in DOMAIN res.b.selLog :
          /\ res.b.selLog[x].pushed /\ res.b.selLog[x].depthIn = 1 /\ res.b.selLog[x].err # ""
          /\ res.b.selLog[y].pushed /\ res.b.selLog[y].depthIn = 0 /\ res.b.selLog[y].nested = 0

\* C20: the table hints of a SELECT are visible in that SELECT only: a join
\* built in a nested SELECT (a derived table or a union branch in FROM) that
\* has no hints of its own gets no merge-join or index-nested-loop preference
\* from the hints of an enclosing SELECT, and does not fail on them.
C20_HintsNotInherited ==
    Done =>
        \A x \in DOMAIN res.b.hintLog :
            LET lg == res.b.hintLog[x]
            IN  (Len(lg.selStack) >= 2 /\ ~lg.selStack[Len(lg.selStack)]) =>
                    /\ ~res.b.nodes[lg.join].attr.preferMergeJoin
                    /\ res.b.nodes[lg.join].attr.preferINLJ = {}
                    /\ ~HintsConflict(res.b, lg)

(***************************************************************************)
(* The owner manager, src/ddl/owner_manager.go.                            *)
(*                                                                         *)
(* mgr[m] is the manager m: pc is where its campaign loop is, err the      *)
(* loop's variable err, lease and done its etcd session (the lease at the  *)
(* server, and whether etcdSession.Done() is closed), owner the field      *)
(* owner, ctxDone whether the context given to CampaignOwner is cancelled, *)
(* watchEv the response waiting in the watch channel of watchOwner, exit   *)
(* the return statement the loop left by and revoke whether it called      *)
(* Revoke for the lease of its session.  keys                              *)
(* are the election keys at the etcd server, in the order of their         *)
(* creation; a key goes with its lease.  The etcd client is not part of    *)
(* the sources: its calls return what the client documents, and a call     *)
(* made with a cancelled context returns the context's error.              *)
(***************************************************************************)
NumManagers == 2

Managers == 1..NumManagers

NewManager ==
    [pc |-> "idle", err |-> "nil", lease |-> "none", done |-> FALSE, owner |-> FALSE,
     ctxDone |-> FALSE, watchEv |-> "none", exit |-> "", revoke |-> FALSE]

\* the keys without the key of m
DropKey(q, m) == SelectSeq(q, LAMBDA k : k # m)

\* the lease of m is revoked or expires: its key is deleted, and a watcher of
\* the key is sent the DELETE event
LeaseGone(m, r) ==
    [r EXCEPT !.lease = "gone",
              !.watchEv = IF r.pc = "watch" /\ m \in Range(keys) THEN "deleted" ELSE @]

\* isContextFinished: the error is context.Canceled or context.DeadlineExceeded
isContextFinished(err) == err = "ctx"

OwnerInit ==
    /\ mgr = [m \in Managers |-> NewManager]
    /\ keys = <<>>
    /\ ext = NoExtract
    /\ cin = NoCoalesce
    /\ cst = NoCoalesce
    /\ cout = NoCoalesce
    /\ stmt = NoResult
    /\ res = NoResult

\* CampaignOwner, lines 141-149: newSession succeeds and the loop is started
CampaignOwner(m) ==
    /\ mgr[m].pc = "idle"
    /\ ~mgr[m].ctxDone
    /\ mgr' = [mgr EXCEPT ![m] = [@ EXCEPT !.pc = "select", !.lease = "ok"]]
    /\ UNCHANGED <<keys, cvars, bvars, xvars>>

\* CampaignOwner, lines 142-145: newSession fails (three attempts, or the
\* context is finished) and no loop is started
CampaignOwnerFails(m) ==
    /\ mgr[m].pc = "idle"
    /\ mgr' = [mgr EXCEPT ![m] = [@ EXCEPT !.pc = "failed"]]
    /\ UNCHANGED <<keys, cvars, bvars, xvars>>

\* Cancel, lines 99-101: the context given to CampaignOwner is cancelled
Cancel(m) ==
    /\ mgr[m].pc \notin {"failed", "returned"}
    /\ ~mgr[m].ctxDone
    /\ mgr' = [mgr EXCEPT ![m] = [@ EXCEPT !.ctxDone = TRUE]]
    /\ UNCHANGED <<keys, cvars, bvars, xvars>>

\* the cases of the select at the top of the loop that are ready, lines 155-173
SelectReady(m) ==
    (IF mgr[m].done THEN {"session"} ELSE {}) \cup (IF mgr[m].ctxDone THEN {"ctx"} ELSE {})

\* campaignLoop, lines 156-158: case <-etcdSession.Done()
SelectSessionDone(m) ==
    /\ mgr[m].pc = "select"
    /\ "session" \in SelectReady(m)
    /\ mgr' = [mgr EXCEPT ![m] = [@ EXCEPT !.pc = "newSession"]]
    /\ UNCHANGED <<keys, cvars, bvars, xvars>>

\* campaignLoop, lines 163-171: case <-ctx.Done(); the lease is revoked (or
\* the Revoke fails) and the loop returns
SelectCtxDone(m) ==
    /\ mgr[m].pc = "select"
    /\ "ctx" \in SelectReady(m)
    /\ \E revoked \in BOOLEAN :
          /\ mgr' = [mgr EXCEPT ![m] =
                        [(IF revoked THEN LeaseGone(m, @) ELSE @) EXCEPT
                            !.pc = "returned", !.exit = "ctx.Done", !.revoke = TRUE,
                            !.err = IF ~revoked THEN "other"
                                    ELSE IF mgr[m].lease = "gone" THEN "ErrLeaseNotFound"
                                    ELSE "nil"]]
          /\ keys' = IF revoked THEN DropKey(keys, m) ELSE keys
    /\ UNCHANGED <<cvars, bvars, xvars>>

\* campaignLoop, lines 172-173: default
SelectDefault(m) ==
    /\ mgr[m].pc = "select"
    /\ SelectReady(m) = {}
    /\ mgr' = [mgr EXCEPT ![m] = [@ EXCEPT !.pc = "checkLease"]]
    /\ UNCHANGED <<keys, cvars, bvars, xvars>>

\* newSession (lines 121-138) called at line 158: an attempt succeeds
NewSessionOK(m) ==
    /\ mgr[m].pc = "newSession"
    /\ ~mgr[m].ctxDone
    /\ mgr' = [mgr EXCEPT ![m] = [@ EXCEPT !.pc = "checkLease", !.err = "nil",
                                           !.lease = "ok", !.done = FALSE, !.revoke = FALSE]]
    /\ UNCHANGED <<keys, cvars, bvars, xvars>>

\* newSession, lines 131-133, and campaignLoop, lines 158-162: the context is
\* finished, newSession gives up and the loop returns
NewSessionCtxErr(m) ==
    /\ mgr[m].pc = "newSession"
    /\ mgr[m].ctxDone
    /\ isContextFinished("ctx")
    /\ mgr' = [mgr EXCEPT ![m] = [@ EXCEPT !.pc = "returned", !.err = "ctx", !.exit = "newSession"]]
    /\ UNCHANGED <<keys, cvars, bvars, xvars>>

\* newSession, lines 131-133, and campaignLoop, lines 158-162: the client's
\* connection is closing, newSession gives up and the loop returns
NewSessionConnClosing(m) ==
    /\ mgr[m].pc = "newSession"
    /\ mgr' = [mgr EXCEPT ![m] = [@ EXCEPT !.pc = "returned", !.err = "ErrClientConnClosing",
                                           !.exit = "newSession"]]
    /\ UNCHANGED <<keys, cvars, bvars, xvars>>

\* campaignLoop, lines 174-183: err is ErrLeaseNotFound, the session is closed
\* (its lease revoked, its Done() closed) and the loop continues with the
\* error of Close
LeaseNotFound(m) ==
    /\ mgr[m].pc = "checkLease"
    /\ mgr[m].err = "ErrLeaseNotFound"
    /\ \E e \in {"nil", "ErrLeaseNotFound", "other"} :
          mgr' = [mgr EXCEPT ![m] = [LeaseGone(m, @) EXCEPT !.pc = "select", !.err = e, !.done = TRUE,
                                                            !.revoke = TRUE]]
    /\ keys' = DropKey(keys, m)
    /\ UNCHANGED <<cvars, bvars, xvars>>

\* campaignLoop, lines 185-194: elec.Campaign is called; with a finished
\* context it returns the context's error and the loop returns, with a lease
\* the server does not know it returns ErrLeaseNotFound, else the key is put
\* and the call waits for the older keys to go
StartCampaign(m) ==
    /\ mgr[m].pc = "checkLease"
    /\ mgr[m].err # "ErrLeaseNotFound"
    /\ IF mgr[m].ctxDone
       THEN /\ isContextFinished("ctx")
            /\ mgr' = [mgr EXCEPT ![m] = [@ EXCEPT !.pc = "returned", !.err = "ctx", !.exit = "Campaign"]]
            /\ keys' = keys
       ELSE IF mgr[m].lease = "gone"
       THEN /\ mgr' = [mgr EXCEPT ![m] = [@ EXCEPT !.pc = "select", !.err = "ErrLeaseNotFound"]]
            /\ keys' = keys
       ELSE /\ mgr' = [mgr EXCEPT ![m] = [@ EXCEPT !.pc = "campaign"]]
            /\ keys' = IF m \in Range(keys) THEN keys ELSE Append(keys, m)
    /\ UNCHANGED <<cvars, bvars, xvars>>

\* elec.Campaign returns nil: no older key is left
CampaignWon(m) ==
    /\ mgr[m].pc = "campaign"
    /\ (IF m \in Range(keys) THEN Head(keys) = m ELSE TRUE)
    /\ mgr' = [mgr EXCEPT ![m] = [@ EXCEPT !.pc = "getOwner", !.err = "nil"]]
    /\ UNCHANGED <<keys, cvars, bvars, xvars>>

\* campaignLoop, lines 186-192: elec.Campaign returns the context's error
\* (the client resigns, which may fail) and the loop returns
CampaignCtxErr(m) ==
    /\ mgr[m].pc = "campaign"
    /\ mgr[m].ctxDone
    /\ isContextFinished("ctx")
    /\ mgr' = [mgr EXCEPT ![m] = [@ EXCEPT !.pc = "returned", !.err = "ctx", !.exit = "Campaign"]]
    /\ keys' \in {keys, DropKey(keys, m)}
    /\ UNCHANGED <<cvars, bvars, xvars>>

\* campaignLoop, lines 186-194: elec.Campaign returns another error and the
\* loop continues
CampaignFails(m) ==
    /\ mgr[m].pc = "campaign"
    /\ \E e \in {"other"} \cup (IF mgr[m].lease = "gone" THEN {"ErrLeaseNotFound"} ELSE {}) :
          /\ ~isContextFinished(e)
          /\ mgr' = [mgr EXCEPT ![m] = [@ EXCEPT !.pc = "select", !.err = e]]
    /\ UNCHANGED <<keys, cvars, bvars, xvars>>

\* GetOwnerInfo (lines 219-235) returns the key, SetOwner(true) (line 200) and
\* the Watch of watchOwner (line 239)
GetOwnerInfo(m) ==
    /\ mgr[m].pc = "getOwner"
    /\ ~mgr[m].ctxDone
    /\ keys # <<>>
    /\ Head(keys) = m
    /\ mgr' = [mgr EXCEPT ![m] = [@ EXCEPT !.pc = "watch", !.owner = TRUE, !.watchEv = "none"]]
    /\ UNCHANGED <<keys, cvars, bvars, xvars>>

\* GetOwnerInfo returns an error (the context is finished, there is no
\* leader, or the leader is another manager): lines 196-199, the loop
\* continues; the err assigned is a variable of its own
GetOwnerInfoFails(m) ==
    /\ mgr[m].pc = "getOwner"
    /\ (IF mgr[m].ctxDone \/ keys = <<>> THEN TRUE ELSE Head(keys) # m)
    /\ mgr' = [mgr EXCEPT ![m] = [@ EXCEPT !.pc = "select"]]
    /\ UNCHANGED <<keys, cvars, bvars, xvars>>

\* a variant of the select of watchOwner without the case <-ctx.Done()
WatchReadyNoCtx(m) ==
    (IF mgr[m].watchEv # "none" THEN {mgr[m].watchEv} ELSE {})
        \cup (IF mgr[m].done THEN {"session"} ELSE {})

\* the cases of the select of watchOwner that make it return, lines 241-259
WatchReady(m) ==
    (IF mgr[m].watchEv # "none" THEN {mgr[m].watchEv} ELSE {})
        \cup (IF mgr[m].done THEN {"session"} ELSE {})
        \cup (IF mgr[m].ctxDone THEN {"ctx"} ELSE {})

\* watchOwner, lines 237-261, returns
watchOwner(m) ==
    /\ mgr[m].pc = "watch"
    /\ WatchReady(m) # {}
    /\ mgr' = [mgr EXCEPT ![m] = [@ EXCEPT !.pc = "watchReturned", !.watchEv = "none"]]
    /\ UNCHANGED <<keys, cvars, bvars, xvars>>

\* a variant that goes round without SetOwner(false)
SetOwnerStays(m) ==
    /\ mgr[m].pc = "watchReturned"
    /\ mgr' = [mgr EXCEPT ![m] = [@ EXCEPT !.pc = "select"]]
    /\ UNCHANGED <<keys, cvars, bvars, xvars>>

\* campaignLoop, line 203: SetOwner(false), and the loop goes round
SetOwnerFalse(m) ==
    /\ mgr[m].pc = "watchReturned"
    /\ mgr' = [mgr EXCEPT ![m] = [@ EXCEPT !.pc = "select", !.owner = FALSE]]
    /\ UNCHANGED <<keys, cvars, bvars, xvars>>

\* the etcd server: the lease of the session expires (lines 174-176)
LeaseExpires(m) ==
    /\ mgr[m].lease = "ok"
    /\ mgr[m].pc \notin {"returned"}
    /\ mgr' = [mgr EXCEPT ![m] = LeaseGone(m, @)]
    /\ keys' = DropKey(keys, m)
    /\ UNCHANGED <<cvars, bvars, xvars>>

\* the etcd client: the session whose lease is gone, or whose context is
\* finished, is done
SessionDone(m) ==
    /\ (mgr[m].lease = "gone" \/ (mgr[m].lease = "ok" /\ mgr[m].ctxDone))
    /\ ~mgr[m].done
    /\ mgr[m].pc \notin {"returned"}
    /\ mgr' = [mgr EXCEPT ![m] = [@ EXCEPT !.done = TRUE]]
    /\ UNCHANGED <<keys, cvars, bvars, xvars>>

\* the etcd client: the watch is cancelled (resp.Canceled, lines 243-247)
WatchCanceled(m) ==
    /\ mgr[m].pc = "watch"
    /\ mgr[m].watchEv = "none"
    /\ mgr' = [mgr EXCEPT ![m] = [@ EXCEPT !.watchEv = "canceled"]]
    /\ UNCHANGED <<keys, cvars, bvars, xvars>>

\* the owner key is deleted at the server by someone else (lines 249-254)
DeleteOwnerKey ==
    /\ keys # <<>>
    /\ mgr' = [mgr EXCEPT ![Head(keys)] =
                  [@ EXCEPT !.watchEv = IF mgr[Head(keys)].pc = "watch" THEN "deleted" ELSE @]]
    /\ keys' = Tail(keys)
    /\ UNCHANGED <<cvars, bvars, xvars>>

\* the steps of the campaign loop of m that its code or a finished context
\* lets it take
campaignLoop(m) ==
    \/ SelectSessionDone(m)
    \/ SelectCtxDone(m)
    \/ SelectDefault(m)
    \/ NewSessionCtxErr(m)
    \/ LeaseNotFound(m)
    \/ StartCampaign(m)
    \/ CampaignCtxErr(m)
    \/ GetOwnerInfo(m)
    \/ GetOwnerInfoFails(m)
    \/ watchOwner(m)
    \/ SetOwnerFalse(m)

OwnerNext ==
    \/ \E m \in Managers :
          \/ CampaignOwner(m)
          \/ CampaignOwnerFails(m)
          \/ Cancel(m)
          \/ campaignLoop(m)
          \/ NewSessionOK(m)
          \/ NewSessionConnClosing(m)
          \/ CampaignWon(m)
          \/ CampaignFails(m)
          \/ LeaseExpires(m)
          \/ SessionDone(m)
          \/ WatchCanceled(m)
    \/ DeleteOwnerKey

SpecOwner == OwnerInit /\ [][OwnerNext]_vars

\* the goroutine of the loop runs: a step its code can take, and a return of a
\* blocking call that the finished context forces, is taken in the end; the
\* select statements choose among their ready cases at random
SpecOwnerFair == SpecOwner /\ \A m \in Managers : WF_vars(campaignLoop(m))

(***************************************************************************)
(* Claims about the campaign loop.                                         *)
(***************************************************************************)

\* the loop of m was started and has not returned
Running(m) == mgr[m].pc \notin {"idle", "failed", "returned"}

\* C17: after the context given to CampaignOwner is cancelled, the campaign
\* loop returns in the end from every state it can be in (blocked in
\* Campaign, watching the owner key, recreating a session, handling
\* lease-not-found), and it starts no further campaign: the select at the top
\* of the loop does not fall through any more and no key is put.
C17_CancelStopsLoop ==
    /\ \A m \in Managers : (mgr[m].ctxDone /\ Running(m)) ~> (mgr[m].pc = "returned")
    /\ [][\A m \in Managers :
            mgr[m].ctxDone =>
                /\ (mgr[m].pc = "select" => mgr'[m].pc # "checkLease")
                /\ (m \in Range(keys') => m \in Range(keys))
                /\ (mgr'[m].pc = "campaign" => mgr[m].pc = "campaign")]_vars

\* both contexts are cancelled: one loop has returned from a blocking call
\* with the context's error, the other is still the owner inside watchOwner
C17_CancelledWhileBlocked ==
    \E m, n \in Managers :
        /\ mgr[m].pc = "returned" /\ mgr[m].ctxDone /\ mgr[m].err = "ctx"
        /\ mgr[n].pc = "watch" /\ mgr[n].ctxDone /\ mgr[n].owner

(***************************************************************************)
(* extractOnCondition, lines 164-203.  ext is the call: the arguments, the *)
(* number i of conditions the loop has been through, the four lists, and   *)
(* in `into' the list each condition went to.                              *)
(***************************************************************************)
MaxConds == 3

\* expression.NewFunction(ctx, ast.EQ, tp, a, b)
EqFunction(a, b) == [k |-> "Scalar", col |-> <<>>, of |-> <<"op", "eq", <<a, b>>>>]

\* expr.(*expression.ScalarFunction) with FuncName.L == ast.EQ, line 169
IsEqFunction(x) == x.k = "Scalar" /\ Len(x.of) = 3 /\ x.of[2] = "eq" /\ Len(x.of[3]) = 2

\* Schema.Contains: a column of the schema has the FromID and Position
SchemaContains(schema, col) ==
    \E x \in DOMAIN schema : schema[x].FromID = col.FromID /\ schema[x].Position = col.Position

RECURSIVE ConcatAll(_)
\* append(cols, ...) over the arguments, in their order
ConcatAll(seqs) == IF seqs = <<>> THEN <<>> ELSE Head(seqs) \o ConcatAll(Tail(seqs))

RECURSIVE ExtractColumns(_)
\* expression.ExtractColumns: the columns of the expression, correlated
\* columns and constants have none
ExtractColumns(x) ==
    IF x.k = "Column" THEN x.col
    ELSE IF x.k = "Scalar" /\ Len(x.of) = 3
    THEN ConcatAll([y \in DOMAIN x.of[3] |-> ExtractColumns(x.of[3][y])])
    ELSE <<>>

\* a variant that keeps the equality as it was written
EquiOfAsWritten(expr, left, right) ==
    IF IsEqFunction(expr) /\ expr.of[3][1].k = "Column" /\ expr.of[3][2].k = "Column"
    THEN Let(expr.of[3][1].col[1], LAMBDA ln :
         Let(expr.of[3][2].col[1], LAMBDA rn :
           IF SchemaContains(left, ln) /\ SchemaContains(right, rn) THEN <<expr>>
             ELSE IF SchemaContains(left, rn) /\ SchemaContains(right, ln) THEN <<expr>>
             ELSE <<>>))
    ELSE <<>>

\* lines 168-183: the equi condition made of expr, <<>> when it is none
EquiOf(expr, left, right) ==
    IF IsEqFunction(expr) /\ expr.of[3][1].k = "Column" /\ expr.of[3][2].k = "Column"
    THEN Let(expr.of[3][1].col[1], LAMBDA ln :
         Let(expr.of[3][2].col[1], LAMBDA rn :
           IF SchemaContains(left, ln) /\ SchemaContains(right, rn) THEN <<expr>>
             ELSE IF SchemaContains(left, rn) /\ SchemaContains(right, ln)
             THEN <<EqFunction(ColumnExpr(rn), ColumnExpr(ln))>>
             ELSE <<>>))
    ELSE <<>>

\* lines 184-200: the list of a condition that is no equi condition
SideOf(expr, left, right) ==
    Let(ExtractColumns(expr), LAMBDA columns :
    Let(\A x \in DOMAIN columns : SchemaContains(left, columns[x]), LAMBDA allFromLeft :
    Let(\A x \in DOMAIN columns : SchemaContains(right, columns[x]), LAMBDA allFromRight :
      IF allFromRight THEN "rightCond" ELSE IF allFromLeft THEN "leftCond" ELSE "otherCond")))

\* the columns and conditions of the calls
ExtL1 == Column(1, 0, "a", "t1", 1)

ExtL2 == Column(1, 1, "b", "t1", 2)

ExtR1 == Column(2, 0, "a", "t2", 1)

ExtX == Column(3, 0, "a", "t3", 1)

ExtConst == [k |-> "Scalar", col |-> <<>>, of |-> <<"val", "", <<>>>>]

ExtCorrelated == [k |-> "Correlated", col |-> <<>>, of |-> <<"t0", "a">>]

ExtFunction(name, a, b) == [k |-> "Scalar", col |-> <<>>, of |-> <<"op", name, <<a, b>>>>]

ExtConditions ==
    {EqFunction(a, b) : a, b \in {ColumnExpr(ExtL1), ColumnExpr(ExtR1), ColumnExpr(ExtX), ExtConst}}
      \cup {EqFunction(ColumnExpr(ExtL1), ColumnExpr(ExtL2)),
            EqFunction(ColumnExpr(ExtL2), ColumnExpr(ExtR1)),
            EqFunction(ExtCorrelated, ColumnExpr(ExtR1)),
            EqFunction(ExtFunction("plus", ColumnExpr(ExtL1), ColumnExpr(ExtR1)), ColumnExpr(ExtR1)),
            ExtFunction("gt", ColumnExpr(ExtL1), ColumnExpr(ExtR1)),
            ExtFunction("gt", ColumnExpr(ExtL1), ColumnExpr(ExtL2)),
            ExtFunction("gt", ColumnExpr(ExtR1), ExtConst),
            ExtFunction("gt", ExtCorrelated, ExtConst),
            ColumnExpr(ExtL1),
            ExtConst}

ExtractInit ==
    /\ \E n \in 0..MaxConds, right \in {<<ExtR1>>, <<ExtR1, ExtX>>} :
          \E conditions \in [1..n -> ExtConditions] :
              ext = [status |-> "running", conditions |-> conditions,
                     left |-> <<ExtL1, ExtL2>>, right |-> right, i |-> 0,
                     eqCond |-> <<>>, leftCond |-> <<>>, rightCond |-> <<>>, otherCond |-> <<>>,
                     into |-> <<>>]
    /\ cin = NoCoalesce
    /\ cst = NoCoalesce
    /\ cout = NoCoalesce
    /\ stmt = NoResult
    /\ res = NoResult
    /\ mgr = NoManagers
    /\ keys = <<>>

\* lines 167-176: the condition is an equality of a left and a right column
ExtractEqual ==
    /\ ext.status = "running"
    /\ ext.i < Len(ext.conditions)
    /\ Let(EquiOf(ext.conditions[ext.i + 1], ext.left, ext.right), LAMBDA eq :
         /\ eq = <<ext.conditions[ext.i + 1]>>
         /\ ext' = [ext EXCEPT !.i = @ + 1, !.eqCond = @ \o eq, !.into = Append(@, "eqCond")])
    /\ UNCHANGED <<cvars, bvars, ovars>>

\* lines 177-181: the equality of a right and a left column, turned round
ExtractSwapped ==
    /\ ext.status = "running"
    /\ ext.i < Len(ext.conditions)
    /\ Let(EquiOf(ext.conditions[ext.i + 1], ext.left, ext.right), LAMBDA eq :
         /\ eq # <<>>
         /\ eq # <<ext.conditions[ext.i + 1]>>
         /\ ext' = [ext EXCEPT !.i = @ + 1, !.eqCond = @ \o eq, !.into = Append(@, "eqCond")])
    /\ UNCHANGED <<cvars, bvars, ovars>>

\* lines 184-200: any other condition
ExtractSide ==
    /\ ext.status = "running"
    /\ ext.i < Len(ext.conditions)
    /\ EquiOf(ext.conditions[ext.i + 1], ext.left, ext.right) = <<>>
    /\ Let(SideOf(ext.conditions[ext.i + 1], ext.left, ext.right), LAMBDA side :
         ext' = [ext EXCEPT !.i = @ + 1, ![side] = Append(@, ext.conditions[ext.i + 1]),
                            !.into = Append(@, side)])
    /\ UNCHANGED <<cvars, bvars, ovars>>

\* line 202: return
ExtractReturn ==
    /\ ext.status = "running"
    /\ ext.i = Len(ext.conditions)
    /\ ext' = [ext EXCEPT !.status = "done"]
    /\ UNCHANGED <<cvars, bvars, ovars>>

ExtractNext == ExtractEqual \/ ExtractSwapped \/ ExtractSide \/ ExtractReturn

SpecExtract == ExtractInit /\ [][ExtractNext]_vars

(***************************************************************************)
(* Claims about buildJoin's join type and conditions.                      *)
(***************************************************************************)

\* the indexes of the conditions gone through that went to the list
WentInto(name) == SelectSeq([x \in 1..ext.i |-> x], LAMBDA x : ext.into[x] = name)

\* the condition with its two arguments the other way round
Swapped(x) == EqFunction(x.of[3][2], x.of[3][1])

ColumnsWithin(x, schema) ==
    \A y \in DOMAIN ExtractColumns(x) : SchemaContains(schema, ExtractColumns(x)[y])

\* C22: extractOnCondition puts every condition into exactly one of the four
\* lists and keeps the order of the input within each list; every equi
\* condition is an equality of a column of the left schema and a column of the
\* right schema, in this order (the condition as written, or turned round);
\* a left condition has columns of the left schema only, a right condition
\* columns of the right schema only.
C22_Partition ==
    ext.status # "idle" =>
        /\ Len(ext.eqCond) + Len(ext.leftCond) + Len(ext.rightCond) + Len(ext.otherCond) = ext.i
        /\ \A name \in {"leftCond", "rightCond", "otherCond"} :
              ext[name] = [y \in DOMAIN WentInto(name) |-> ext.conditions[WentInto(name)[y]]]
        /\ DOMAIN ext.eqCond = DOMAIN WentInto("eqCond")
        /\ \A y \in DOMAIN ext.eqCond :
              /\ IsEqFunction(ext.conditions[WentInto("eqCond")[y]])
              /\ ext.eqCond[y] \in {ext.conditions[WentInto("eqCond")[y]],
                                    Swapped(ext.conditions[WentInto("eqCond")[y]])}
              /\ IsEqFunction(ext.eqCond[y])
              /\ ext.eqCond[y].of[3][1].k = "Column"
              /\ ext.eqCond[y].of[3][2].k = "Column"
              /\ SchemaContains(ext.left, ext.eqCond[y].of[3][1].col[1])
              /\ SchemaContains(ext.right, ext.eqCond[y].of[3][2].col[1])
        /\ \A y \in DOMAIN ext.leftCond : ColumnsWithin(ext.leftCond[y], ext.left)
        /\ \A y \in DOMAIN ext.rightCond : ColumnsWithin(ext.rightCond[y], ext.right)

\* a call that returned: an equality written right = left between two
\* different conditions that went to the same list
C22_SwappedBetweenOthers ==
    /\ ext.status = "done"
    /\ ext.into = <<"otherCond", "eqCond", "otherCond">>
    /\ ext.otherCond[1] # ext.otherCond[2]
    /\ ext.eqCond = <<Swapped(ext.conditions[2])>>
    /\ ext.eqCond[1] # ext.conditions[2]

\* the joins that buildJoin returned
ReturnedJoin(b, lg) ==
    \E y \in DOMAIN b.rets : b.rets[y].fn = "buildJoin" /\ b.rets[y].p = lg.join

RECURSIVE HasRef(_, _)
\* the column reference uid is in the expression (sub-queries are not entered)
HasRef(e, uid) ==
    \/ e.k = "col" /\ e.uid = uid
    \/ e.k \notin {"col", "sub"} /\ \E x \in DOMAIN e.args : HasRef(e.args[x], uid)

RECURSIVE InsideAgg(_, _)
\* the reference is under an aggregate function of the expression
InsideAgg(e, uid) ==
    \/ e.k = "agg" /\ HasRef(e, uid)
    \/ e.k \notin {"col", "sub"} /\ \E x \in DOMAIN e.args : InsideAgg(e.args[x], uid)

RECURSIVE InsideCompound(_, _)
\* the reference is under a node of the expression that is neither a column
\* nor an aggregate function
InsideCompound(e, uid) ==
    \/ e.k \notin {"col", "agg", "sub"} /\ HasRef(e, uid)
    \/ e.k \notin {"col", "sub"} /\ \E x \in DOMAIN e.args : InsideCompound(e.args[x], uid)

\* what the rule makes of a reference the resolver left: lg.root is the HAVING
\* expression or the ORDER BY item the reference belongs to
FieldsFirstRule(lg) ==
    /\ ~InsideAgg(lg.root, lg.v.uid)
    /\ ~(lg.orderBy /\ InsideCompound(lg.root, lg.v.uid))
    /\ ~NamesGbyItem(lg.gbyItems, lg.v)

\* C23: for each column reference in HAVING or ORDER BY the resolver consults
\* the select fields first exactly when the reference is not inside an
\* aggregate function, is not inside a compound expression of its own ORDER
\* BY item, and names no GROUP BY item; else it consults the child schema
\* first.
C23_FieldsFirstIff ==
    Done =>
        \A x \in DOMAIN res.b.resolveLog :
            res.b.resolveLog[x].fieldsFirst <=> FieldsFirstRule(res.b.resolveLog[x])


\* the select field that resolveFromSelectFields finds for the reference
GbyField(lg) == resolveFromSelectFields(lg.v, lg.fields, FALSE)

GbyInSchema(lg) == FindColumn(lg.schema, lg.v.tbl, lg.v.name).found

\* the reference is the GROUP BY item itself
GbyBare(lg) == lg.root.k = "col"

\* C24 as stated: a bare reference, or one absent from the input schema, is
\* replaced by the expression of the select field that matches its name; a
\* reference inside a compound expression whose name is in the input schema
\* and in the select list is kept.
C24_BareSubstituted ==
    Done =>
        \A x \in DOMAIN res.b.gbyLog :
            LET lg == res.b.gbyLog[x]
            IN  (GbyField(lg).err = "" /\ GbyField(lg).index # -1) =>
                    /\ (GbyBare(lg) \/ ~GbyInSchema(lg)) =>
                          lg.ok /\ lg.n = lg.fields[GbyField(lg).index + 1].expr
                    /\ (~GbyBare(lg) /\ GbyInSchema(lg)) => lg.ok /\ lg.n = lg.v

\* C24, amended: a reference absent from the input schema is replaced by the
\* expression of the select field that matches its name; a reference whose
\* name is in the input schema is kept, inside a compound expression without
\* looking at the select list, bare unless the select list is ambiguous for it.
C24_SchemaKept ==
    Done =>
        \A x \in DOMAIN res.b.gbyLog :
            LET lg == res.b.gbyLog[x]
            IN  /\ (~GbyInSchema(lg) /\ GbyField(lg).err = "" /\ GbyField(lg).index # -1) =>
                      lg.ok /\ lg.n = lg.fields[GbyField(lg).index + 1].expr
                /\ (GbyInSchema(lg) /\ (~GbyBare(lg) \/ GbyField(lg).err = "")) =>
                      lg.ok /\ lg.n = lg.v
                /\ (GbyBare(lg) /\ GbyField(lg).err # "") => ~lg.ok

\* a build whose GROUP BY item is a bare column of the input schema that is
\* also the alias of a select field with another expression
C24_BareInBoth ==
    /\ Done
    /\ \E x \in DOMAIN res.b.gbyLog :
          LET lg == res.b.gbyLog[x]
          IN  /\ GbyBare(lg) /\ GbyInSchema(lg)
              /\ GbyField(lg).err = "" /\ GbyField(lg).index # -1
              /\ lg.fields[GbyField(lg).index + 1].expr # lg.v
              /\ lg.ok /\ lg.n = lg.v


(***************************************************************************)
(* Claims about the lease and the owner flag of the owner managers.        *)
(***************************************************************************)

\* the loop of m has returned because its context is cancelled
ExitedOnCancel(m) ==
    /\ mgr[m].pc = "returned"
    /\ mgr[m].ctxDone
    /\ (mgr[m].exit = "ctx.Done" \/ mgr[m].err = "ctx")

\* C25: whenever the campaign loop returns because its context is cancelled,
\* the lease of the session it holds has been revoked (Revoke was called for
\* it, or the server has dropped it) before the return, wherever the loop was
\* when the context was cancelled.
C25_RevokedOnCancel ==
    \A m \in Managers : ExitedOnCancel(m) => (mgr[m].revoke \/ mgr[m].lease # "ok")


C27_AtMostOneOwner == Cardinality({m \in Managers : mgr[m].owner}) <= 1

====
